---- MODULE Spec2Model ----
(***************************************************************************)
(* Model of the store-management API: the order-placement transaction of   *)
(* src/api/Order.js, the stock routes of src/unnamed/part_002, the product *)
(* and customer routes of src/api/Product.js and the category routes of    *)
(* src/unnamed/part_000.                                                   *)
(*                                                                         *)
(* The database is MongoDB.  A multi-document transaction reads from the   *)
(* snapshot taken at its first operation plus its own writes; a write to a *)
(* document that another transaction has written since that snapshot       *)
(* (committed or not) throws a WriteConflict; commit applies all writes at *)
(* once; abort discards them.  Operations without a session read and write *)
(* the committed store directly.                                           *)
(***************************************************************************)
EXTENDS Integers, Sequences, FiniteSets, TLC

VARIABLES stock, customers, products, categories, orders, notifications, req, addReq,
          initQty, resp, adminLeft

vars == <<stock, customers, products, categories, orders, notifications, req, addReq,
          initQty, resp, adminLeft>>

(***************************************************************************)
(* Bounds and input domains                                                *)
(***************************************************************************)
MaxItems == 2
MaxQty == 2
MaxStock == 3
\* calls of the stock, product and category routes made beside the requests
\* in progress
MaxAdminOps == 2
\* calls of the customer routes
MaxCustomerOps == 4
\* calls of the product routes made one after the other
MaxProductOps == 5
\* calls of the category routes made one after the other
MaxCategoryOps == 4

StockIds == {"s1", "s2"}
CustIds == {"c1", "c2", "c3"}
Emails == {"a@x", "b@x"}
ProdIds == {"p1", "p2", "p3", "p4"}
CatIds == {"k1", "k2", "k3"}
AddReqs == {"a1", "a2"}
Reqs == {"r1", "r2"}

\* a well-formed id that names no document; also the missing customerId
NoId == "none"

\* quantities a caller may put in a line item or an update
QtyInputs == (-1) .. MaxQty
\* line items: a request names its number of line items when it starts, and the
\* model draws each line item when the handler's loop reaches it
AllItems == [stock : StockIds \cup {NoId}, quantity : QtyInputs]
GoodItems == [stock : StockIds, quantity : 1 .. MaxQty]

\* Date.now() at a soft delete: any nonzero number
DeletedStamp == 1
\* lowStockAlert of a batch created by add-stock
DefaultLowStockAlert == 5
\* deletedAt of a batch created by add-stock, which does not set it: the
\* default of the Stock schema, the marker of an active document
DefaultDeletedAt == 0

(***************************************************************************)
(* Documents                                                               *)
(***************************************************************************)
NoDoc == [exists |-> FALSE, quantity |-> 0, lowStockAlert |-> 0, deletedAt |-> 0, product |-> NoId]
NoCustomer == [exists |-> FALSE, email |-> NoId, deletedAt |-> 0]
\* productCode is a string, kept as its sequence of characters; price 0: not set
NoProduct == [exists |-> FALSE, productCode |-> <<>>, category |-> NoId, price |-> 0,
              deletedAt |-> 0]
NoCategory == [exists |-> FALSE, name |-> <<>>, deletedAt |-> 0]
NoView == [b \in StockIds |-> NoDoc]


\* an optional numeric request field: absent, or a number
Absent == [set |-> FALSE, nan |-> FALSE, value |-> 0]
Num(n) == [set |-> TRUE, nan |-> FALSE, value |-> n]
\* a value that is not a number and not falsy, such as the string "abc"
NotANumber == [set |-> TRUE, nan |-> TRUE, value |-> 0]

NoOrder == [id |-> NoId, customer |-> NoId, items |-> <<>>, totalAmount |-> 0,
            status |-> "none", deletedAt |-> 0]

\* the loop variable before the loop has read a line item
NoItem == [stock |-> NoId, quantity |-> 0]

\* n: items.length; items: the line items deducted so far; item: the line item
\* the loop read last; undone: the batches whose
\* deductions an abort discarded
IdleReq == [pc |-> "idle", customerId |-> NoId, n |-> 0, items |-> <<>>, item |-> NoItem,
            totalAmount |-> Absent, cur |-> NoDoc, view |-> NoView, wrote |-> {},
            stale |-> {}, undone |-> {}, mailFailed |-> FALSE, order |-> NoOrder,
            result |-> "none",
            message |-> "none"]

\* totalAmount values a caller may send: absent, zero, a positive number, a
\* negative number, not a number
TotalInputs == {Absent, Num(0), Num(7), Num(-5), NotANumber}

(***************************************************************************)
(* MongoDB transaction helpers                                             *)
(***************************************************************************)
\* the transaction of request r has taken its snapshot and is still open
InTxn(r) == r.pc \in {"findStock", "saveStock", "alert", "saveOrder", "commit"}

\* Stock.findById(id).session(session): the snapshot plus the transaction's own
\* writes; no deletedAt filter
TxnFindStock(r, id) == IF id \in StockIds THEN r.view[id] ELSE NoDoc

\* a write in a transaction conflicts when the document was committed by someone
\* else after the snapshot, or is written by another open transaction
WriteConflict(p, b) ==
    \/ b \in req[p].stale
    \/ \E q \in Reqs \ {p} : InTxn(req[q]) /\ b \in req[q].wrote

\* a write outside any session waits while an open transaction holds the document
LockedByTxn(b) == \E q \in Reqs : InTxn(req[q]) /\ b \in req[q].wrote

\* the committed documents B changed: every other open transaction's snapshot
\* of them is now stale
MarkStale(rq, B, p) ==
    [q \in Reqs |-> IF q # p /\ InTxn(rq[q]) THEN [rq[q] EXCEPT !.stale = @ \cup B]
                    ELSE rq[q]]

\* session.abortTransaction(); session.endSession(); res.json(FAILED)
Aborted(r, msg) ==
    [IdleReq EXCEPT !.pc = "done", !.result = "FAILED", !.message = msg,
                    !.undone = r.wrote]

(***************************************************************************)
(* POST /order/add-order                                                   *)
(***************************************************************************)
\* Order.js:34,65: the next line item, or on to the total and the order
NextItem(r) ==
    IF Len(r.items) < r.n
    THEN [r EXCEPT !.pc = "findStock", !.cur = NoDoc]
    ELSE [r EXCEPT !.pc = "saveOrder", !.cur = NoDoc]

\* Order.js:14-24: open the session, read the body, reject missing fields
StartOrder(p, c, n, t) ==
    /\ req[p].pc = "idle"
    /\ req' = [req EXCEPT ![p] =
          IF c = NoId \/ n = 0 \/ ~t.set
          THEN [Aborted(@, "All fields are required") EXCEPT
                  !.customerId = c, !.n = n, !.totalAmount = t]
          ELSE [@ EXCEPT !.pc = "findCustomer", !.customerId = c, !.n = n,
                         !.totalAmount = t]]
    /\ UNCHANGED <<stock, customers, products, categories, addReq, orders, notifications, initQty, resp, adminLeft>>

\* Order.js:26-31: the transaction's first read takes its snapshot;
\* Customer.findById has no deletedAt filter
FindCustomer(p) ==
    /\ req[p].pc = "findCustomer"
    /\ LET r == req[p]
       IN  req' = [req EXCEPT ![p] =
             IF ~customers[r.customerId].exists
             THEN Aborted(r, "Customer not found")
             ELSE [r EXCEPT !.pc = "findStock", !.view = stock]]
    /\ UNCHANGED <<stock, customers, products, categories, addReq, orders, notifications, initQty, resp, adminLeft>>

\* FindStock with the availability test off by one: <= for <
FindStockOffByOne(p, item) ==
    /\ req[p].pc = "findStock"
    /\ LET r == req[p]
           doc == TxnFindStock(r, item.stock)
       IN  req' = [req EXCEPT ![p] =
             IF ~doc.exists THEN [Aborted(r, "Stock not found") EXCEPT !.item = item]
             ELSE IF doc.quantity <= item.quantity
                  THEN [Aborted(r, "Insufficient stock") EXCEPT !.item = item]
                  ELSE [r EXCEPT !.pc = "saveStock", !.items = Append(@, item),
                                 !.item = item,
                                 !.cur = [doc EXCEPT !.quantity = @ - item.quantity]]]
    /\ UNCHANGED <<stock, customers, products, categories, addReq, orders, notifications, initQty, resp, adminLeft>>

\* Order.js:35-52: load the batch of the next line item, check it, deduct in memory
FindStock(p, item) ==
    /\ req[p].pc = "findStock"
    /\ LET r == req[p]
           doc == TxnFindStock(r, item.stock)
       IN  req' = [req EXCEPT ![p] =
             IF ~doc.exists THEN [Aborted(r, "Stock not found") EXCEPT !.item = item]
             ELSE IF doc.quantity < item.quantity
                  THEN IF products[doc.product].exists
                       THEN [Aborted(r, "Insufficient stock") EXCEPT !.item = item]
                       ELSE [Aborted(r, "server error") EXCEPT !.item = item]
                  ELSE [r EXCEPT !.pc = "saveStock", !.items = Append(@, item),
                                 !.item = item,
                                 !.cur = [doc EXCEPT !.quantity = @ - item.quantity]]]
    /\ UNCHANGED <<stock, customers, products, categories, addReq, orders, notifications, initQty, resp, adminLeft>>

\* stock.save() without the session: the write goes straight to the store
SaveStockNoSession(p) ==
    /\ req[p].pc = "saveStock"
    /\ LET r == req[p]
           b == r.items[Len(r.items)].stock
           w == [r EXCEPT !.view[b].quantity = r.cur.quantity]
       IN  /\ stock' = [stock EXCEPT ![b].quantity = r.cur.quantity]
           /\ req' = [req EXCEPT ![p] =
                 IF r.cur.quantity < r.cur.lowStockAlert
                 THEN [w EXCEPT !.pc = "alert"]
                 ELSE NextItem(w)]
    /\ UNCHANGED <<customers, products, categories, addReq, orders, notifications, initQty, resp, adminLeft>>

\* SaveStock with the threshold test of update-stock: <= for <
SaveStockAlertAtThreshold(p) ==
    /\ req[p].pc = "saveStock"
    /\ LET r == req[p]
           b == r.items[Len(r.items)].stock
       IN  req' = [req EXCEPT ![p] =
             IF WriteConflict(p, b) THEN Aborted(r, "server error")
             ELSE LET w == [r EXCEPT !.view[b].quantity = r.cur.quantity,
                                     !.wrote = @ \cup {b}]
                  IN  IF r.cur.quantity <= r.cur.lowStockAlert
                      THEN [w EXCEPT !.pc = "alert"]
                      ELSE NextItem(w)]
    /\ UNCHANGED <<stock, customers, products, categories, addReq, orders, notifications, initQty, resp, adminLeft>>

\* Order.js:53-56: stock.save({ session }), then the threshold test
SaveStock(p) ==
    /\ req[p].pc = "saveStock"
    /\ LET r == req[p]
           b == r.items[Len(r.items)].stock
       IN  req' = [req EXCEPT ![p] =
             IF WriteConflict(p, b) THEN Aborted(r, "server error")
             ELSE LET w == [r EXCEPT !.view[b].quantity = r.cur.quantity,
                                     !.wrote = @ \cup {b}]
                  IN  IF r.cur.quantity < r.cur.lowStockAlert
                      THEN [w EXCEPT !.pc = "alert"]
                      ELSE NextItem(w)]
    /\ UNCHANGED <<stock, customers, products, categories, addReq, orders, notifications, initQty, resp, adminLeft>>

\* what transporter.sendMail does with a mail
MailOutcomes == {"sent", "rejected"}

\* src/unnamed/part_006:14-28: the promise sendLowStockAlert returns, and whether
\* it logged an error; a rejection of sendMail is caught and logged
SendLowStockAlert(mail) == [promise |-> "resolved", logged |-> (mail = "rejected")]

\* AlertLowStock with the dispatcher awaited and its catch block missing: a
\* rejected mail rejects the await and the handler's catch aborts
AlertLowStockAwaited(p, mail) ==
    /\ req[p].pc = "alert"
    /\ LET r == req[p]
           b == r.items[Len(r.items)].stock
           found == products[r.cur.product].exists
       IN  /\ notifications' =
                IF found
                THEN notifications \cup {[by |-> p, stock |-> b, quantity |-> r.cur.quantity]}
                ELSE notifications
           /\ req' = [req EXCEPT ![p] =
                 IF found /\ mail = "rejected"
                 THEN [Aborted(r, "server error") EXCEPT !.mailFailed = TRUE]
                 ELSE NextItem(r)]
    /\ UNCHANGED <<stock, customers, products, categories, addReq, orders, initQty, resp, adminLeft>>

\* Order.js:57-63: User.find, Product.findById (no session), sendLowStockAlert
\* called and not awaited; mailFailed: a mail of this request was rejected
AlertLowStock(p, mail) ==
    /\ req[p].pc = "alert"
    /\ LET r == req[p]
           b == r.items[Len(r.items)].stock
           found == products[r.cur.product].exists
       IN  /\ notifications' =
                IF found
                THEN notifications \cup {[by |-> p, stock |-> b, quantity |-> r.cur.quantity]}
                ELSE notifications
           /\ req' = [req EXCEPT ![p] =
                 [NextItem(r) EXCEPT
                    !.mailFailed = @ \/ (found /\ SendLowStockAlert(mail).logged)]]
    /\ UNCHANGED <<stock, customers, products, categories, addReq, orders, initQty, resp, adminLeft>>

\* Order.js:72-77: sum of product price times quantity over the line items
RECURSIVE FallbackTotal(_, _, _)
FallbackTotal(r, its, k) ==
    IF k > Len(its) THEN 0
    ELSE LET doc == TxnFindStock(r, its[k].stock)
             add == IF doc.exists /\ products[doc.product].exists
                       /\ products[doc.product].price # 0
                    THEN products[doc.product].price * its[k].quantity ELSE 0
         IN  add + FallbackTotal(r, its, k + 1)

\* Order.js:67-78
FinalTotalAmount(r) ==
    IF r.totalAmount.nan \/ r.totalAmount.value = 0
    THEN FallbackTotal(r, r.items, 1)
    ELSE r.totalAmount.value

\* newOrder.save() without the session: the order is persisted at once
SaveOrderNoSession(p) ==
    /\ req[p].pc = "saveOrder"
    /\ LET r == req[p]
           o == [id |-> p, customer |-> r.customerId, items |-> r.items,
                 totalAmount |-> FinalTotalAmount(r), status |-> "pending", deletedAt |-> 0]
       IN  /\ req' = [req EXCEPT ![p] = [r EXCEPT !.pc = "commit", !.order = o]]
           /\ orders' = orders \cup {o}
    /\ UNCHANGED <<stock, customers, products, categories, addReq, notifications, initQty, resp, adminLeft>>

\* Order.js:67-88: the total, then newOrder.save({ session })
SaveOrder(p) ==
    /\ req[p].pc = "saveOrder"
    /\ LET r == req[p]
       IN  req' = [req EXCEPT ![p] =
             [r EXCEPT !.pc = "commit",
                       !.order = [id |-> p, customer |-> r.customerId, items |-> r.items,
                                  totalAmount |-> FinalTotalAmount(r), status |-> "pending",
                                  deletedAt |-> 0]]]
    /\ UNCHANGED <<stock, customers, products, categories, addReq, orders, notifications, initQty, resp, adminLeft>>

\* Order.js:90-93: commitTransaction applies the writes and the order at once
CommitOrder(p) ==
    /\ req[p].pc = "commit"
    /\ LET r == req[p]
       IN  /\ stock' = [b \in StockIds |-> IF b \in r.wrote THEN r.view[b] ELSE stock[b]]
           /\ orders' = orders \cup {r.order}
           /\ req' = MarkStale([req EXCEPT ![p] =
                        [IdleReq EXCEPT !.pc = "done", !.result = "SUCCESS",
                                        !.message = "Order placed successfully",
                                        !.customerId = r.customerId, !.n = r.n,
                                        !.items = r.items,
                                        !.totalAmount = r.totalAmount,
                                        !.mailFailed = r.mailFailed]],
                        r.wrote, p)
    /\ UNCHANGED <<customers, products, categories, addReq, notifications, initQty, resp, adminLeft>>

\* Order.js:95-100: an awaited store operation rejects; the catch block aborts
StoreError(p) ==
    /\ req[p].pc \in {"findCustomer", "findStock", "saveStock", "alert", "saveOrder", "commit"}
    /\ req' = [req EXCEPT ![p] = Aborted(@, "server error")]
    /\ UNCHANGED <<stock, customers, products, categories, addReq, orders, notifications, initQty, resp, adminLeft>>

\* the handler's promise rejected: no response is sent and endSession is not
\* called; the store discards the transaction
Unanswered(r) == [IdleReq EXCEPT !.pc = "hung", !.undone = r.wrote]

\* Order.js:14-15: mongoose.startSession() is awaited before the try block; when
\* it rejects, nothing catches the rejection
StartSessionError(p) ==
    /\ req[p].pc = "idle"
    /\ req' = [req EXCEPT ![p] = Unanswered(@)]
    /\ UNCHANGED <<stock, customers, products, categories, addReq, orders, notifications, initQty, resp, adminLeft>>

\* Order.js:90, 95-97: commitTransaction rejects and leaves the session past its
\* commit; the catch block's abortTransaction then rejects too ("Cannot call
\* abortTransaction after calling commitTransaction"), inside the catch block
CommitError(p) ==
    /\ req[p].pc = "commit"
    /\ req' = [req EXCEPT ![p] = Unanswered(@)]
    /\ UNCHANGED <<stock, customers, products, categories, addReq, orders, notifications, initQty, resp, adminLeft>>

\* a step of the add-order handler after its start: the operation it awaits
\* resolves or rejects
Pending(p, Lines) ==
    \/ FindCustomer(p)
    \/ \E item \in Lines : FindStock(p, item)
    \/ SaveStock(p)
    \/ \E mail \in MailOutcomes : AlertLowStock(p, mail)
    \/ SaveOrder(p)
    \/ CommitOrder(p)
    \/ StoreError(p)
    \/ CommitError(p)

\* one step of the add-order handler, its inputs drawn from the given sets
PlaceOrder(p, Custs, Lens, Totals, Lines) ==
    \/ \E c \in Custs, n \in Lens, t \in Totals : StartOrder(p, c, n, t)
    \/ StartSessionError(p)
    \/ Pending(p, Lines)

(***************************************************************************)
(* Stock routes (src/unnamed/part_002)                                     *)
(***************************************************************************)
\* one call of a route outside add-order, counted against the number of calls
\* the specification allows
AdminCall ==
    /\ adminLeft > 0
    /\ adminLeft' = adminLeft - 1

\* the last response of a route outside add-order; alert: the quantity in the
\* low-stock mail the handler sent, if it sent one; data: the ids of the
\* documents in the response; mails: the calls of sendLowStockAlert a handler
\* that may make several of them made
Response(op, id, status, msg) ==
    [op |-> op, id |-> id, status |-> status, message |-> msg, alert |-> Absent,
     data |-> {}, mails |-> {}]

\* POST /add-stock: quantity q for product x; b is the new document's id
AddStock(b, x, q) ==
    /\ AdminCall
    /\ ~stock[b].exists
    /\ IF q < 0
       THEN /\ resp' = Response("add-stock", b, "FAILED", "Quantity and Price cannot be negative")
            /\ UNCHANGED <<stock, initQty>>
       ELSE IF ~products[x].exists
       THEN /\ resp' = Response("add-stock", b, "FAILED", "Invalid product ID")
            /\ UNCHANGED <<stock, initQty>>
       ELSE /\ stock' = [stock EXCEPT ![b] =
                  [exists |-> TRUE, quantity |-> q, lowStockAlert |-> DefaultLowStockAlert,
                   deletedAt |-> DefaultDeletedAt, product |-> x]]
            /\ initQty' = [initQty EXCEPT ![b] = q]
            /\ resp' = Response("add-stock", b, "SUCCESS", "Stock added successfully")
    /\ UNCHANGED <<customers, products, categories, addReq, orders, notifications, req>>

\* UpdateStock with the threshold test of add-order: < for <=
UpdateStockStrict(b, q, a) ==
    /\ AdminCall
    /\ IF ~(stock[b].exists /\ stock[b].deletedAt = 0)
       THEN /\ resp' = Response("update-stock", b, "FAILED", "Stock not found")
            /\ UNCHANGED <<stock, customers, products, categories, addReq, orders, notifications, req, initQty>>
       ELSE /\ ~LockedByTxn(b)
            /\ LET doc == [stock[b] EXCEPT
                             !.quantity = IF q.set THEN q.value ELSE @,
                             !.lowStockAlert = IF a.set THEN a.value ELSE @]
                   low == doc.quantity < doc.lowStockAlert
               IN  /\ stock' = [stock EXCEPT ![b] = doc]
                   /\ req' = MarkStale(req, {b}, NoId)
                   /\ resp' = IF low /\ ~products[doc.product].exists
                              THEN Response("update-stock", b, "FAILED", "Invalid product ID")
                              ELSE [Response("update-stock", b, "SUCCESS", "Stock updated")
                                      EXCEPT !.alert = IF low THEN Num(doc.quantity) ELSE Absent]
            /\ UNCHANGED <<customers, products, categories, addReq, orders, notifications, initQty>>

\* PUT /update-stock/:id with optional quantity q and lowStockAlert a
UpdateStock(b, q, a) ==
    /\ AdminCall
    /\ IF ~(stock[b].exists /\ stock[b].deletedAt = 0)
       THEN /\ resp' = Response("update-stock", b, "FAILED", "Stock not found")
            /\ UNCHANGED <<stock, customers, products, categories, addReq, orders, notifications, req, initQty>>
       ELSE /\ ~LockedByTxn(b)
            /\ LET doc == [stock[b] EXCEPT
                             !.quantity = IF q.set THEN q.value ELSE @,
                             !.lowStockAlert = IF a.set THEN a.value ELSE @]
                   low == doc.quantity <= doc.lowStockAlert
               IN  /\ stock' = [stock EXCEPT ![b] = doc]
                   /\ req' = MarkStale(req, {b}, NoId)
                   /\ resp' = IF low /\ ~products[doc.product].exists
                              THEN Response("update-stock", b, "FAILED", "Invalid product ID")
                              ELSE [Response("update-stock", b, "SUCCESS", "Stock updated")
                                      EXCEPT !.alert = IF low THEN Num(doc.quantity) ELSE Absent]
            /\ UNCHANGED <<customers, products, categories, addReq, orders, notifications, initQty>>

\* delete-stock without the test for a batch that is already deleted
DeleteStockAgain(b) ==
    /\ AdminCall
    /\ IF ~stock[b].exists
       THEN /\ resp' = Response("delete-stock", b, "FAILED", "Stock not found")
            /\ UNCHANGED <<stock, customers, products, categories, addReq, orders, notifications, req, initQty>>
       ELSE /\ ~LockedByTxn(b)
            /\ stock' = [stock EXCEPT ![b].deletedAt = DeletedStamp]
            /\ req' = MarkStale(req, {b}, NoId)
            /\ resp' = Response("delete-stock", b, "SUCCESS", "Stock soft deleted successfully")
            /\ UNCHANGED <<customers, products, categories, addReq, orders, notifications, initQty>>

\* DELETE /delete-stock/:id
DeleteStock(b) ==
    /\ AdminCall
    /\ IF ~stock[b].exists
       THEN /\ resp' = Response("delete-stock", b, "FAILED", "Stock not found")
            /\ UNCHANGED <<stock, customers, products, categories, addReq, orders, notifications, req, initQty>>
       ELSE IF stock[b].deletedAt # 0
       THEN /\ resp' = Response("delete-stock", b, "FAILED", "Stock already deleted")
            /\ UNCHANGED <<stock, customers, products, categories, addReq, orders, notifications, req, initQty>>
       ELSE /\ ~LockedByTxn(b)
            /\ stock' = [stock EXCEPT ![b].deletedAt = DeletedStamp]
            /\ req' = MarkStale(req, {b}, NoId)
            /\ resp' = Response("delete-stock", b, "SUCCESS", "Stock soft deleted successfully")
            /\ UNCHANGED <<customers, products, categories, addReq, orders, notifications, initQty>>

\* POST /restore-stock/:id
RestoreStock(b) ==
    /\ AdminCall
    /\ IF ~stock[b].exists
       THEN /\ resp' = Response("restore-stock", b, "FAILED", "Stock not found")
            /\ UNCHANGED <<stock, customers, products, categories, addReq, orders, notifications, req, initQty>>
       ELSE IF stock[b].deletedAt = 0
       THEN /\ resp' = Response("restore-stock", b, "FAILED", "Stock is not deleted")
            /\ UNCHANGED <<stock, customers, products, categories, addReq, orders, notifications, req, initQty>>
       ELSE /\ ~LockedByTxn(b)
            /\ stock' = [stock EXCEPT ![b].deletedAt = 0]
            /\ req' = MarkStale(req, {b}, NoId)
            /\ resp' = Response("restore-stock", b, "SUCCESS", "Stock restored successfully")
            /\ UNCHANGED <<customers, products, categories, addReq, orders, notifications, initQty>>

\* DELETE /permanent-delete-stock/:id
PermanentlyDeleteStock(b) ==
    /\ AdminCall
    /\ IF ~stock[b].exists
       THEN /\ resp' = Response("permanent-delete-stock", b, "FAILED", "Stock not found")
            /\ UNCHANGED <<stock, customers, products, categories, addReq, orders, notifications, req, initQty>>
       ELSE /\ ~LockedByTxn(b)
            /\ stock' = [stock EXCEPT ![b] = NoDoc]
            /\ req' = MarkStale(req, {b}, NoId)
            /\ resp' = Response("permanent-delete-stock", b, "SUCCESS",
                                "Stock permanently deleted")
            /\ UNCHANGED <<customers, products, categories, addReq, orders, notifications, initQty>>

(***************************************************************************)
(* Order routes (src/api/Order.js:173-261)                                 *)
(***************************************************************************)
\* the quantity the line items its ask of batch b
RECURSIVE LineQty(_, _)
LineQty(its, b) ==
    IF Len(its) = 0 THEN 0
    ELSE (IF Head(its).stock = b THEN Head(its).quantity ELSE 0) + LineQty(Tail(its), b)

\* ids an order route may be called with
OrderIds == Reqs \cup {NoId}
\* status values of an update-order body; the empty string is falsy
StatusInputs == {"", "shipped"}

\* Order.findOne({ _id: id, deletedAt: 0 })
ActiveOrders(id) == {o \in orders : o.id = id /\ o.deletedAt = 0}
\* Order.findOne({ _id: id, deletedAt: { $ne: 0 } })
DeletedOrders(id) == {o \in orders : o.id = id /\ o.deletedAt # 0}

\* the response and the order collection after an order route
OrderRoute(r, docs) ==
    /\ AdminCall
    /\ resp' = r
    /\ orders' = docs
    /\ UNCHANGED <<stock, customers, products, categories, notifications, req, addReq,
                   initQty>>

\* update-order with the lookup not filtered by deletedAt
UpdateOrderStatusAnyMarker(id, status) ==
    IF status = ""
    THEN OrderRoute(Response("update-order", id, "FAILED",
                             "Status is required and must be a string"), orders)
    ELSE IF {o \in orders : o.id = id} = {}
    THEN OrderRoute(Response("update-order", id, "FAILED",
                             "Order not found or has been deleted"), orders)
    ELSE LET o == CHOOSE x \in orders : x.id = id
         IN  OrderRoute(Response("update-order", id, "SUCCESS",
                                 "Order status updated successfully"),
                        (orders \ {o}) \cup {[o EXCEPT !.status = status]})

\* PUT /update-order/:id
UpdateOrderStatus(id, status) ==
    IF status = ""
    THEN OrderRoute(Response("update-order", id, "FAILED",
                             "Status is required and must be a string"), orders)
    ELSE IF ActiveOrders(id) = {}
    THEN OrderRoute(Response("update-order", id, "FAILED",
                             "Order not found or has been deleted"), orders)
    ELSE LET o == CHOOSE x \in ActiveOrders(id) : TRUE
         IN  OrderRoute(Response("update-order", id, "SUCCESS",
                                 "Order status updated successfully"),
                        (orders \ {o}) \cup {[o EXCEPT !.status = status]})

\* delete-order giving the order's quantities back to its batches
DeleteOrderRestocking(id) ==
    IF ActiveOrders(id) = {}
    THEN OrderRoute(Response("delete-order", id, "FAILED",
                             "Order not found or already deleted"), orders)
    ELSE LET o == CHOOSE x \in ActiveOrders(id) : TRUE
         IN  /\ AdminCall
             /\ resp' = Response("delete-order", id, "SUCCESS",
                                 "Order soft deleted successfully")
             /\ orders' = (orders \ {o}) \cup {[o EXCEPT !.deletedAt = DeletedStamp]}
             /\ stock' = [b \in StockIds |->
                            [stock[b] EXCEPT !.quantity = @ + LineQty(o.items, b)]]
             /\ UNCHANGED <<customers, products, categories, notifications, req, addReq,
                            initQty>>

\* DELETE /delete-order/:id
DeleteOrder(id) ==
    IF ActiveOrders(id) = {}
    THEN OrderRoute(Response("delete-order", id, "FAILED",
                             "Order not found or already deleted"), orders)
    ELSE LET o == CHOOSE x \in ActiveOrders(id) : TRUE
         IN  OrderRoute(Response("delete-order", id, "SUCCESS",
                                 "Order soft deleted successfully"),
                        (orders \ {o}) \cup {[o EXCEPT !.deletedAt = DeletedStamp]})

\* POST /restore-order/:id
RestoreOrder(id) ==
    IF DeletedOrders(id) = {}
    THEN OrderRoute(Response("restore-order", id, "FAILED",
                             "Order not found or not deleted"), orders)
    ELSE LET o == CHOOSE x \in DeletedOrders(id) : TRUE
         IN  OrderRoute(Response("restore-order", id, "SUCCESS",
                                 "Order restored successfully"),
                        (orders \ {o}) \cup {[o EXCEPT !.deletedAt = 0]})

\* DELETE /permanently-delete-order/:id
PermanentlyDeleteOrder(id) ==
    IF {o \in orders : o.id = id} = {}
    THEN OrderRoute(Response("permanently-delete-order", id, "FAILED",
                             "Order not found"), orders)
    ELSE OrderRoute(Response("permanently-delete-order", id, "SUCCESS",
                             "Order permanently deleted"),
                    {o \in orders : o.id # id})

(***************************************************************************)
(* Customer routes (src/api/Product.js:331-556)                            *)
(***************************************************************************)
\* Customer.findOne({ email, _id: { $ne: id }, deletedAt: 0 })
ActiveCustomerWithEmail(e, id) ==
    \E c \in CustIds \ {id} :
        customers[c].exists /\ customers[c].deletedAt = 0 /\ customers[c].email = e

\* POST /add-customer: c is the new document's id
AddCustomer(c, e) ==
    /\ AdminCall
    /\ ~customers[c].exists
    /\ IF ActiveCustomerWithEmail(e, NoId)
       THEN /\ resp' = Response("add-customer", c, "FAILED", "Email already exists")
            /\ UNCHANGED customers
       ELSE /\ customers' = [customers EXCEPT ![c] =
                  [exists |-> TRUE, email |-> e, deletedAt |-> 0]]
            /\ resp' = Response("add-customer", c, "SUCCESS", "Customer added successfully")
    /\ UNCHANGED <<stock, products, categories, addReq, orders, notifications, req, initQty>>

\* PUT /update-customer/:id
UpdateCustomer(c, e) ==
    /\ AdminCall
    /\ IF ~(customers[c].exists /\ customers[c].deletedAt = 0)
       THEN /\ resp' = Response("update-customer", c, "FAILED",
                                "Customer not found or has been deleted")
            /\ UNCHANGED customers
       ELSE IF e # customers[c].email /\ ActiveCustomerWithEmail(e, c)
       THEN /\ resp' = Response("update-customer", c, "FAILED", "Email already exists")
            /\ UNCHANGED customers
       ELSE /\ customers' = [customers EXCEPT ![c].email = e]
            /\ resp' = Response("update-customer", c, "SUCCESS",
                                "Customer updated successfully")
    /\ UNCHANGED <<stock, products, categories, addReq, orders, notifications, req, initQty>>

\* DELETE /delete-customer/:id
DeleteCustomer(c) ==
    /\ AdminCall
    /\ IF ~(customers[c].exists /\ customers[c].deletedAt = 0)
       THEN /\ resp' = Response("delete-customer", c, "FAILED",
                                "Customer not found or already deleted")
            /\ UNCHANGED customers
       ELSE /\ customers' = [customers EXCEPT ![c].deletedAt = DeletedStamp]
            /\ resp' = Response("delete-customer", c, "SUCCESS",
                                "Customer soft deleted successfully")
    /\ UNCHANGED <<stock, products, categories, addReq, orders, notifications, req, initQty>>

\* POST /restore-customer/:id
RestoreCustomer(c) ==
    /\ AdminCall
    /\ IF ~(customers[c].exists /\ customers[c].deletedAt # 0)
       THEN /\ resp' = Response("restore-customer", c, "FAILED",
                                "Customer not found or is not deleted")
            /\ UNCHANGED customers
       ELSE /\ customers' = [customers EXCEPT ![c].deletedAt = 0]
            /\ resp' = Response("restore-customer", c, "SUCCESS",
                                "Customer restored successfully")
    /\ UNCHANGED <<stock, products, categories, addReq, orders, notifications, req, initQty>>

\* DELETE /permanently-delete-customer/:id
PermanentlyDeleteCustomer(c) ==
    /\ AdminCall
    /\ IF ~customers[c].exists
       THEN /\ resp' = Response("permanently-delete-customer", c, "FAILED",
                                "Customer not found")
            /\ UNCHANGED customers
       ELSE /\ customers' = [customers EXCEPT ![c] = NoCustomer]
            /\ resp' = Response("permanently-delete-customer", c, "SUCCESS",
                                "Customer permanently deleted")
    /\ UNCHANGED <<stock, products, categories, addReq, orders, notifications, req, initQty>>

(***************************************************************************)
(* Product code generation (src/api/Product.js:57-69)                      *)
(***************************************************************************)
\* strings are sequences of characters over this alphabet
LowerLetters == {"a", "b", "d", "e", "f", "o", "r", "t", "w"}
UpperLetters == {"A", "B", "D", "E", "F", "O", "R", "T", "W"}
UpperOf == ("a" :> "A") @@ ("b" :> "B") @@ ("d" :> "D") @@ ("e" :> "E") @@ ("f" :> "F")
           @@ ("o" :> "O") @@ ("r" :> "R") @@ ("t" :> "T") @@ ("w" :> "W")
Digits == <<"0", "1", "2", "3", "4", "5", "6", "7", "8", "9">>

IsLetter(ch) == ch \in LowerLetters \cup UpperLetters
IsDigit(ch) == \E d \in 1 .. 10 : Digits[d] = ch
DigitValue(ch) == (CHOOSE d \in 1 .. 10 : Digits[d] = ch) - 1

\* name.replace(/[^a-zA-Z]/g, '').substring(0, 3).toUpperCase()
RawPrefix(name) ==
    LET letters == SelectSeq(name, IsLetter)
        cut == SubSeq(letters, 1, IF Len(letters) < 3 THEN Len(letters) ELSE 3)
    IN  [i \in 1 .. Len(cut) |-> IF cut[i] \in LowerLetters THEN UpperOf[cut[i]] ELSE cut[i]]

\* the last three characters of code are digits: /\d{3}$/
EndsInThreeDigits(code) ==
    Len(code) >= 3 /\ \A i \in (Len(code) - 2) .. Len(code) : IsDigit(code[i])

\* new RegExp(`^${rawPrefix}\\d{3}$`) matches code
MatchesPrefix(code, prefix) ==
    /\ Len(code) = Len(prefix) + 3
    /\ SubSeq(code, 1, Len(prefix)) = prefix
    /\ EndsInThreeDigits(code)

\* parseInt(match[0], 10) of the /\d{3}$/ match, 0 without a match
SuffixNumber(code) ==
    IF EndsInThreeDigits(code)
    THEN 100 * DigitValue(code[Len(code) - 2]) + 10 * DigitValue(code[Len(code) - 1])
         + DigitValue(code[Len(code)])
    ELSE 0

\* n.toString() for n >= 0
RECURSIVE NumToString(_)
NumToString(n) ==
    IF n < 10 THEN <<Digits[n + 1]>> ELSE Append(NumToString(n \div 10), Digits[(n % 10) + 1])

\* str.padStart(3, '0')
PadStart3(str) ==
    IF Len(str) >= 3 THEN str ELSE [i \in 1 .. (3 - Len(str)) |-> "0"] \o str

\* productsWithPrefix without the deletedAt filter
ProductsWithPrefixAnyMarker(prefix) ==
    {x \in ProdIds : products[x].exists /\ MatchesPrefix(products[x].productCode, prefix)}

\* Product.find({ productCode: { $regex }, deletedAt: 0 })
ProductsWithPrefix(prefix) ==
    {x \in ProdIds : products[x].exists /\ products[x].deletedAt = 0
                     /\ MatchesPrefix(products[x].productCode, prefix)}

\* the reduce over productsWithPrefix, from 0
MaxNumber(S) ==
    IF S = {} THEN 0
    ELSE LET x == CHOOSE y \in S :
                    \A z \in S : SuffixNumber(products[z].productCode)
                                  <= SuffixNumber(products[y].productCode)
         IN  SuffixNumber(products[x].productCode)

NewCode(prefix) ==
    prefix \o PadStart3(NumToString(MaxNumber(ProductsWithPrefix(prefix)) + 1))

(***************************************************************************)
(* POST /product/add-product (src/api/Product.js:35-92)                    *)
(***************************************************************************)
IdleAdd == [pc |-> "idle", category |-> NoId, prefix |-> <<>>, code |-> <<>>, result |-> "none",
            message |-> "none"]

\* Product.js:40-58: the body is read and the category looked up
AddFindCategory(a, k) ==
    /\ addReq[a].pc = "idle"
    /\ addReq' = [addReq EXCEPT ![a] =
          IF ~(categories[k].exists /\ categories[k].deletedAt = 0)
          THEN [IdleAdd EXCEPT !.pc = "done", !.result = "FAILED",
                               !.message = "Category not found"]
          ELSE [IdleAdd EXCEPT !.pc = "findProducts", !.category = k,
                               !.prefix = RawPrefix(categories[k].name)]]
    /\ UNCHANGED <<stock, customers, products, categories, orders, notifications, req,
                   initQty, resp, adminLeft>>

\* Product.js:61-69: the active products with the prefix are read, the code computed
AddFindProducts(a) ==
    /\ addReq[a].pc = "findProducts"
    /\ addReq' = [addReq EXCEPT ![a] =
          [@ EXCEPT !.pc = "save", !.code = NewCode(addReq[a].prefix)]]
    /\ UNCHANGED <<stock, customers, products, categories, orders, notifications, req,
                   initQty, resp, adminLeft>>

\* Product.js:75-86: newProduct.save(); x is the new document's id
AddSaveProduct(a, x) ==
    /\ addReq[a].pc = "save"
    /\ ~products[x].exists
    /\ products' = [products EXCEPT ![x] =
          [exists |-> TRUE, productCode |-> addReq[a].code, category |-> addReq[a].category,
           price |-> 0, deletedAt |-> 0]]
    /\ addReq' = [addReq EXCEPT ![a] =
          [@ EXCEPT !.pc = "done", !.result = "SUCCESS",
                    !.message = "Product added successfully"]]
    /\ UNCHANGED <<stock, customers, categories, orders, notifications, req, initQty,
                   resp, adminLeft>>

AddProduct(a) ==
    \/ \E k \in CatIds : AddFindCategory(a, k)
    \/ AddFindProducts(a)
    \/ \E x \in ProdIds : AddSaveProduct(a, x)

(***************************************************************************)
(* Product lifecycle routes (src/api/Product.js:229-314)                   *)
(***************************************************************************)
ProductConflict ==
    "Cannot restore product. Product code now conflicts with an active product."

\* Product.findOne({ productCode, _id: { $ne: id }, deletedAt: 0 })
ActiveProductWithCode(code, id) ==
    \E x \in ProdIds \ {id} :
        products[x].exists /\ products[x].deletedAt = 0 /\ products[x].productCode = code

\* the response and the product collection after a product route
ProductRoute(r, docs) ==
    /\ AdminCall
    /\ resp' = r
    /\ products' = docs
    /\ UNCHANGED <<stock, customers, categories, orders, notifications, req, addReq,
                   initQty>>

\* POST /add-product run from request to response with no other request in
\* between; x is the new document's id
CreateProduct(x, k) ==
    IF ~(categories[k].exists /\ categories[k].deletedAt = 0)
    THEN ProductRoute(Response("add-product", NoId, "FAILED", "Category not found"),
                      products)
    ELSE /\ ~products[x].exists
         /\ ProductRoute(Response("add-product", x, "SUCCESS", "Product added successfully"),
                         [products EXCEPT ![x] =
                            [exists |-> TRUE,
                             productCode |-> NewCode(RawPrefix(categories[k].name)),
                             category |-> k, price |-> 0, deletedAt |-> 0]])

\* PUT /update-product/:id with productCode code, price and category k
UpdateProduct(x, code, price, k) ==
    IF Len(code) = 0
    THEN ProductRoute(Response("update-product", x, "FAILED",
                               "All fields are required and price must be a number"),
                      products)
    ELSE IF price <= 0
    THEN ProductRoute(Response("update-product", x, "FAILED",
                               "Price must be a positive number"), products)
    ELSE IF ~(products[x].exists /\ products[x].deletedAt = 0)
    THEN ProductRoute(Response("update-product", x, "FAILED",
                               "Product not found or has been deleted"), products)
    ELSE IF code # products[x].productCode /\ ActiveProductWithCode(code, x)
    THEN ProductRoute(Response("update-product", x, "FAILED",
                               "Product code already exists on another product"),
                      products)
    ELSE ProductRoute(Response("update-product", x, "SUCCESS",
                               "Product updated successfully"),
                      [products EXCEPT ![x].productCode = code, ![x].price = price,
                                       ![x].category = k])

\* DELETE /delete-product/:id
SoftDeleteProduct(x) ==
    IF ~(products[x].exists /\ products[x].deletedAt = 0)
    THEN ProductRoute(Response("delete-product", x, "FAILED",
                               "Product not found or already deleted"), products)
    ELSE ProductRoute(Response("delete-product", x, "SUCCESS",
                               "Product soft deleted successfully"),
                      [products EXCEPT ![x].deletedAt = DeletedStamp])

\* restore-product without the productCode check
RestoreProductUnchecked(x) ==
    IF ~(products[x].exists /\ products[x].deletedAt # 0)
    THEN ProductRoute(Response("restore-product", x, "FAILED",
                               "Product not found or is not deleted"), products)
    ELSE ProductRoute(Response("restore-product", x, "SUCCESS",
                               "Product restored successfully"),
                      [products EXCEPT ![x].deletedAt = 0])

\* POST /restore-product/:id
RestoreProduct(x) ==
    IF ~(products[x].exists /\ products[x].deletedAt # 0)
    THEN ProductRoute(Response("restore-product", x, "FAILED",
                               "Product not found or is not deleted"), products)
    ELSE IF ActiveProductWithCode(products[x].productCode, x)
    THEN ProductRoute(Response("restore-product", x, "FAILED",
                               ProductConflict), products)
    ELSE ProductRoute(Response("restore-product", x, "SUCCESS",
                               "Product restored successfully"),
                      [products EXCEPT ![x].deletedAt = 0])

\* permanently-delete-product looking the product up among the active ones
PermanentlyDeleteProductActiveOnly(x) ==
    IF ~(products[x].exists /\ products[x].deletedAt = 0)
    THEN ProductRoute(Response("permanently-delete-product", x, "FAILED",
                               "Product not found"), products)
    ELSE ProductRoute(Response("permanently-delete-product", x, "SUCCESS",
                               "Product permanently deleted"),
                      [products EXCEPT ![x] = NoProduct])

\* DELETE /permanently-delete-product/:id
PermanentlyDeleteProduct(x) ==
    IF ~products[x].exists
    THEN ProductRoute(Response("permanently-delete-product", x, "FAILED",
                               "Product not found"), products)
    ELSE ProductRoute(Response("permanently-delete-product", x, "SUCCESS",
                               "Product permanently deleted"),
                      [products EXCEPT ![x] = NoProduct])

(***************************************************************************)
(* Category routes (src/unnamed/part_000)                                  *)
(***************************************************************************)
CategoryConflict ==
    "Cannot restore category. Category name now conflicts with an active category."

\* Category.findOne({ name, _id: { $ne: id }, deletedAt: 0 })
ActiveCategoryWithName(name, id) ==
    \E k \in CatIds \ {id} :
        categories[k].exists /\ categories[k].deletedAt = 0 /\ categories[k].name = name

\* the response and the category collection after a category route
CategoryRoute(r, docs) ==
    /\ AdminCall
    /\ resp' = r
    /\ categories' = docs
    /\ UNCHANGED <<stock, customers, products, orders, notifications, req, addReq,
                   initQty>>

\* POST /add-category: k is the new document's id
AddCategory(k, name) ==
    /\ ~categories[k].exists
    /\ IF ActiveCategoryWithName(name, NoId)
       THEN CategoryRoute(Response("add-category", k, "FAILED",
                                   "Category name already exists"), categories)
       ELSE CategoryRoute(Response("add-category", k, "SUCCESS",
                                   "Category added successfully"),
                          [categories EXCEPT ![k] =
                             [exists |-> TRUE, name |-> name, deletedAt |-> 0]])

\* PUT /update-category/:id
UpdateCategory(k, name) ==
    IF ~(categories[k].exists /\ categories[k].deletedAt = 0)
    THEN CategoryRoute(Response("update-category", k, "FAILED",
                                "Category not found or has been deleted"), categories)
    ELSE IF name # categories[k].name /\ ActiveCategoryWithName(name, k)
    THEN CategoryRoute(Response("update-category", k, "FAILED",
                                "Category name already exists"), categories)
    ELSE CategoryRoute(Response("update-category", k, "SUCCESS",
                                "Category updated successfully"),
                       [categories EXCEPT ![k].name = name])

\* DELETE /delete-category/:id
SoftDeleteCategory(k) ==
    IF ~(categories[k].exists /\ categories[k].deletedAt = 0)
    THEN CategoryRoute(Response("delete-category", k, "FAILED",
                                "Category not found or already deleted"), categories)
    ELSE CategoryRoute(Response("delete-category", k, "SUCCESS",
                                "Category soft deleted successfully"),
                       [categories EXCEPT ![k].deletedAt = DeletedStamp])

\* restore-category without the name check
RestoreCategoryUnchecked(k) ==
    IF ~(categories[k].exists /\ categories[k].deletedAt # 0)
    THEN CategoryRoute(Response("restore-category", k, "FAILED",
                                "Category not found or is not deleted"), categories)
    ELSE CategoryRoute(Response("restore-category", k, "SUCCESS",
                                "Category restored successfully"),
                       [categories EXCEPT ![k].deletedAt = 0])

\* POST /restore-category/:id
RestoreCategory(k) ==
    IF ~(categories[k].exists /\ categories[k].deletedAt # 0)
    THEN CategoryRoute(Response("restore-category", k, "FAILED",
                                "Category not found or is not deleted"), categories)
    ELSE IF ActiveCategoryWithName(categories[k].name, k)
    THEN CategoryRoute(Response("restore-category", k, "FAILED",
                                CategoryConflict), categories)
    ELSE CategoryRoute(Response("restore-category", k, "SUCCESS",
                                "Category restored successfully"),
                       [categories EXCEPT ![k].deletedAt = 0])

\* DELETE /permanently-delete-category/:id
PermanentlyDeleteCategory(k) ==
    IF ~categories[k].exists
    THEN CategoryRoute(Response("permanently-delete-category", k, "FAILED",
                                "Category not found"), categories)
    ELSE CategoryRoute(Response("permanently-delete-category", k, "SUCCESS",
                                "Category permanently deleted"),
                       [categories EXCEPT ![k] = NoCategory])

(***************************************************************************)
(* Read routes: the lists and the lookups by id                            *)
(***************************************************************************)
\* the all-stocks query without its deletedAt filter
AllStocksUnfiltered == {b \in StockIds : stock[b].exists}

\* Stock.find({ deletedAt: 0 }) and Stock.find({}), as the ids of the documents
AllStocks == {b \in StockIds : stock[b].exists /\ stock[b].deletedAt = 0}
AllStocksWithDeleted == {b \in StockIds : stock[b].exists}
\* Order.find({ deletedAt: 0 }) and Order.find()
AllOrders == {o.id : o \in {d \in orders : d.deletedAt = 0}}
AllOrdersWithDeleted == {o.id : o \in orders}
\* Product.find({ deletedAt: 0 }) and Product.find()
AllProducts == {x \in ProdIds : products[x].exists /\ products[x].deletedAt = 0}
AllProductsWithDeleted == {x \in ProdIds : products[x].exists}
\* Category.find({ deletedAt: 0 }) and Category.find()
AllCategories == {k \in CatIds : categories[k].exists /\ categories[k].deletedAt = 0}
AllCategoriesWithDeleted == {k \in CatIds : categories[k].exists}
\* Customer.find({ deletedAt: 0 }) and Customer.find()
AllCustomers == {c \in CustIds : customers[c].exists /\ customers[c].deletedAt = 0}
AllCustomersWithDeleted == {c \in CustIds : customers[c].exists}

\* the response of a route that reads and writes nothing
ReadRoute(r) ==
    /\ AdminCall
    /\ resp' = r
    /\ UNCHANGED <<stock, customers, products, categories, orders, notifications, req,
                   addReq, initQty>>

\* res.json({ status: "SUCCESS", data }) with the documents ids
Data(op, id, ids) == [Response(op, id, "SUCCESS", "none") EXCEPT !.data = ids]

\* the list routes: kind names the collection, deleted asks for the
\* with-deleted list
ListAll(kind, deleted) ==
    ReadRoute(
      IF kind = "stock"
      THEN IF deleted THEN Data("all-stocks/with-deleted", NoId, AllStocksWithDeleted)
           ELSE Data("all-stocks", NoId, AllStocks)
      ELSE IF kind = "order"
      THEN IF deleted THEN Data("all-orders/with-deleted", NoId, AllOrdersWithDeleted)
           ELSE Data("all-orders", NoId, AllOrders)
      ELSE IF kind = "product"
      THEN IF deleted THEN Data("all-products/with-deleted", NoId, AllProductsWithDeleted)
           ELSE Data("all-products", NoId, AllProducts)
      ELSE IF kind = "category"
      THEN IF deleted THEN Data("all-categories/with-deleted", NoId, AllCategoriesWithDeleted)
           ELSE Data("all-categories", NoId, AllCategories)
      ELSE IF deleted THEN Data("all-customers/with-deleted", NoId, AllCustomersWithDeleted)
           ELSE Data("all-customers", NoId, AllCustomers))

Kinds == {"stock", "order", "product", "category", "customer"}

\* part_002:80-93: the answer of GET /stock/:id; an id that is not an ObjectId
\* makes Stock.findOne throw a CastError, which the catch block answers
GetStockResponse(id) ==
    IF id \notin StockIds
    THEN Response("get-stock", id, "FAILED", "Internal server error")
    ELSE IF stock[id].exists /\ stock[id].deletedAt = 0
    THEN Data("get-stock", id, {id})
    ELSE Response("get-stock", id, "FAILED", "Stock not found")

\* GET /stock/:id
GetStock(b) == ReadRoute(GetStockResponse(b))

\* GET /order/:id
GetOrder(id) ==
    ReadRoute(IF ActiveOrders(id) # {}
              THEN Data("get-order", id, {id})
              ELSE Response("get-order", id, "FAILED",
                            "Order not found or has been deleted"))

\* GET /product/product/:id
GetProduct(x) ==
    ReadRoute(IF x \in ProdIds /\ products[x].exists /\ products[x].deletedAt = 0
              THEN Data("get-product", x, {x})
              ELSE IF x \in ProdIds /\ products[x].exists /\ products[x].deletedAt # 0
              THEN Response("get-product", x, "FAILED", "Product has been deleted")
              ELSE Response("get-product", x, "FAILED", "Product not found"))

\* GET /category/:id
GetCategory(k) ==
    ReadRoute(IF k \in CatIds /\ categories[k].exists /\ categories[k].deletedAt = 0
              THEN Data("get-category", k, {k})
              ELSE Response("get-category", k, "FAILED", "Category not found"))

\* GET /customer/:id
GetCustomer(c) ==
    ReadRoute(IF c \in CustIds /\ customers[c].exists /\ customers[c].deletedAt = 0
              THEN Data("get-customer", c, {c})
              ELSE Response("get-customer", c, "FAILED", "Customer not found"))

(***************************************************************************)
(* Initial states and specifications                                       *)
(***************************************************************************)
\* JavaScript values passed to sendLowStockAlert: undefined, a string, a number
\* and the list of the users' addresses
Undefined == [t |-> "undefined", s |-> "", n |-> 0]
Str(s) == [t |-> "string", s |-> s, n |-> 0]
Number(n) == [t |-> "number", s |-> "", n |-> n]
UserEmails == [t |-> "list", s |-> "users", n |-> 0]

\* src/unnamed/part_006:14: sendLowStockAlert binds its arguments by position;
\* an argument the caller leaves out is undefined
LowStockMail(args) ==
    LET arg(i) == IF i <= Len(args) THEN args[i] ELSE Undefined
    IN  [productName |-> arg(1), batchNumber |-> arg(2), quantity |-> arg(3),
         emailRecipients |-> arg(4)]

\* part_002:215-239: the handler of check-low-stock. Stock.find is not
\* populated, so stock.product is an ObjectId and its name is undefined; the
\* call passes three arguments
CheckLowStock ==
    LET lowStockItems == {b \in AllStocks : stock[b].quantity <= stock[b].lowStockAlert}
    IN  IF lowStockItems # {}
        THEN [Response("check-low-stock", NoId, "SUCCESS", "Low stock alerts sent to users")
                EXCEPT !.mails = {LowStockMail(<<Undefined, Number(stock[b].quantity), UserEmails>>) :
                                     b \in lowStockItems}]
        ELSE Response("check-low-stock", NoId, "SUCCESS", "No low stock items found")

\* part_002:57, 68, 80, 215: the GET routes of the stock router in the order
\* they are declared, each path as its segments
StockGetRoutes ==
    << <<"all-stocks">>, <<"all-stocks", "with-deleted">>, <<":id">>, <<"check-low-stock">> >>

\* Express matches a path segment by segment; a segment that starts with a
\* colon is a parameter and matches any segment
RouteMatches(route, path) ==
    /\ Len(route) = Len(path)
    /\ \A i \in 1 .. Len(route) : route[i] = ":id" \/ route[i] = path[i]

\* the first declared route that matches the path, 0 if there is none: its
\* handler answers and never calls next()
FirstRoute(path) ==
    LET m == {i \in 1 .. Len(StockGetRoutes) : RouteMatches(StockGetRoutes[i], path)}
    IN  IF m = {} THEN 0 ELSE CHOOSE i \in m : \A j \in m : i <= j

\* the paths a client asks the stock router for
StockGetPaths ==
    {<<"all-stocks">>, <<"all-stocks", "with-deleted">>, <<"check-low-stock">>}
       \cup {<<b>> : b \in StockIds}

\* a GET request to the stock router
StockGet(path) ==
    LET i == FirstRoute(path)
    IN  ReadRoute(
          IF i = 1 THEN Data("all-stocks", NoId, AllStocks)
          ELSE IF i = 2 THEN Data("all-stocks/with-deleted", NoId, AllStocksWithDeleted)
          ELSE IF i = 3 THEN GetStockResponse(path[1])
          ELSE IF i = 4 THEN CheckLowStock
          ELSE Response("get", NoId, "FAILED", "Cannot GET"))

NoResp == Response("none", NoId, "none", "none")

\* optional fields of an update-stock body
OptQty == {Absent} \cup {Num(v) : v \in (-1) .. MaxStock}
OptAlert == {Absent, Num(1)}

Food == <<"F", "o", "o", "d">>
Foot == <<"F", "o", "o", "t">>
B2 == <<"b", "-", "2">>
CatNames == {Food, Foot, B2}
FOO001 == <<"F", "O", "O", "0", "0", "1">>

\* a store with customers c1 and c2, categories k1 "Food" and k2 "Foot" (delete
\* marker kdel), product p1 FOO001 (delete marker pdel) and the batches of B, and
\* the number of calls of the other routes that may follow
InitWith(B, calls, pdel, kdel) ==
    /\ stock = [b \in StockIds |->
          IF b \in B
          THEN [exists |-> TRUE, quantity |-> IF b = "s1" THEN MaxStock ELSE MaxStock - 1,
                lowStockAlert |-> IF b = "s1" THEN 2 ELSE DefaultLowStockAlert,
                deletedAt |-> 0, product |-> "p1"]
          ELSE NoDoc]
    /\ customers = [c \in CustIds |->
          IF c = "c3" THEN NoCustomer
          ELSE [exists |-> TRUE, email |-> IF c = "c1" THEN "a@x" ELSE "b@x",
                deletedAt |-> 0]]
    /\ products = [x \in ProdIds |->
          IF x = "p1"
          THEN [exists |-> TRUE, productCode |-> FOO001, category |-> "k1", price |-> 2,
                deletedAt |-> pdel]
          ELSE NoProduct]
    /\ categories = [k \in CatIds |->
          IF k = "k1" THEN [exists |-> TRUE, name |-> Food, deletedAt |-> 0]
          ELSE IF k = "k2" THEN [exists |-> TRUE, name |-> Foot, deletedAt |-> kdel]
          ELSE NoCategory]
    /\ addReq = [a \in AddReqs |-> IdleAdd]
    /\ orders = {}
    /\ notifications = {}
    /\ req = [p \in Reqs |-> IdleReq]
    /\ initQty = [b \in StockIds |-> stock[b].quantity]
    /\ resp = NoResp
    /\ adminLeft = calls

InitOrders == InitWith(StockIds, 0, 0, 0)

\* concurrent add-order requests and nothing else
NextOrders ==
    \E p \in Reqs : PlaceOrder(p, {"c1"}, 1 .. MaxItems, {Num(7)}, GoodItems)

SpecOrders == InitOrders /\ [][NextOrders]_vars

Init == InitWith({"s1"}, MaxAdminOps, 0, 0)

\* an add-order request with any body, beside the stock and customer routes
Next ==
    \/ PlaceOrder("r1", CustIds \cup {NoId}, 0 .. MaxItems, TotalInputs, AllItems)
    \/ \E b \in StockIds, x \in ProdIds, q \in (-1) .. MaxStock : AddStock(b, x, q)
    \/ \E b \in StockIds, q \in OptQty, a \in OptAlert : UpdateStock(b, q, a)
    \/ \E b \in StockIds : DeleteStock(b)
    \/ \E b \in StockIds : RestoreStock(b)
    \/ \E c \in CustIds : DeleteCustomer(c)
    \/ \E c \in CustIds : RestoreCustomer(c)

Spec == Init /\ [][Next]_vars

\* the stock routes alone
InitStock == InitWith({"s1"}, MaxAdminOps, 0, 0)

NextStock ==
    \/ \E b \in StockIds, x \in ProdIds, q \in (-1) .. MaxStock : AddStock(b, x, q)
    \/ \E b \in StockIds, q \in OptQty, a \in OptAlert : UpdateStock(b, q, a)
    \/ \E b \in StockIds : DeleteStock(b)
    \/ \E b \in StockIds : RestoreStock(b)

SpecStock == InitStock /\ [][NextStock]_vars

\* add-order requests of one line item beside the order routes
InitOrderRoutes == InitWith(StockIds, MaxAdminOps, 0, 0)

NextOrderRoutes ==
    \/ \E p \in Reqs : PlaceOrder(p, {"c1"}, {1}, {Num(7)}, GoodItems)
    \/ \E id \in OrderIds, status \in StatusInputs : UpdateOrderStatus(id, status)
    \/ \E id \in OrderIds : DeleteOrder(id)
    \/ \E id \in OrderIds : RestoreOrder(id)
    \/ \E id \in OrderIds : PermanentlyDeleteOrder(id)

SpecOrderRoutes == InitOrderRoutes /\ [][NextOrderRoutes]_vars

\* the customer routes alone
InitCustomers == InitWith({"s1"}, MaxCustomerOps, 0, 0)

NextCustomers ==
    \/ \E c \in CustIds, e \in Emails : AddCustomer(c, e)
    \/ \E c \in CustIds, e \in Emails : UpdateCustomer(c, e)
    \/ \E c \in CustIds : DeleteCustomer(c)
    \/ \E c \in CustIds : RestoreCustomer(c)
    \/ \E c \in CustIds : PermanentlyDeleteCustomer(c)

SpecCustomers == InitCustomers /\ [][NextCustomers]_vars

Footwear == <<"F", "o", "o", "t", "w", "e", "a", "r">>
NoLetters == <<"4", "2">>
FOO999 == <<"F", "O", "O", "9", "9", "9">>
\* productCode values of an update-product body
CodeInputs == {<<>>, FOO001, FOO999}

\* the product routes called one after the other, from a store with no product
\* and the categories "Footwear", "b-2" and "42"
InitCodes ==
    /\ stock = [b \in StockIds |-> NoDoc]
    /\ customers = [c \in CustIds |-> NoCustomer]
    /\ products = [x \in ProdIds |-> NoProduct]
    /\ categories = [k \in CatIds |->
          [exists |-> TRUE,
           name |-> IF k = "k1" THEN Footwear ELSE IF k = "k2" THEN B2 ELSE NoLetters,
           deletedAt |-> 0]]
    /\ addReq = [a \in AddReqs |-> IdleAdd]
    /\ orders = {}
    /\ notifications = {}
    /\ req = [p \in Reqs |-> IdleReq]
    /\ initQty = [b \in StockIds |-> 0]
    /\ resp = NoResp
    /\ adminLeft = MaxProductOps

NextCodes ==
    \/ \E x \in ProdIds, k \in CatIds : CreateProduct(x, k)
    \/ \E x \in ProdIds, code \in CodeInputs, price \in {0, 3} :
          UpdateProduct(x, code, price, "k1")
    \/ \E x \in ProdIds : SoftDeleteProduct(x)
    \/ \E x \in ProdIds : RestoreProduct(x)
    \/ \E x \in ProdIds : PermanentlyDeleteProduct(x)

SpecCodes == InitCodes /\ [][NextCodes]_vars

\* the category routes called one after the other, from a store with the active
\* category "Food" and the soft-deleted category "Foot"
InitCategories == InitWith({"s1"}, MaxCategoryOps, 0, DeletedStamp)

NextCategories ==
    \/ \E k \in CatIds, name \in CatNames : AddCategory(k, name)
    \/ \E k \in CatIds, name \in CatNames : UpdateCategory(k, name)
    \/ \E k \in CatIds : SoftDeleteCategory(k)
    \/ \E k \in CatIds : RestoreCategory(k)
    \/ \E k \in CatIds : PermanentlyDeleteCategory(k)

SpecCategories == InitCategories /\ [][NextCategories]_vars

\* concurrent add-product requests beside the product and category routes, from
\* a store where product p1 and category k2 are soft-deleted
InitCatalog == InitWith({"s1"}, MaxAdminOps, DeletedStamp, DeletedStamp)

NextCatalog ==
    \/ \E a \in AddReqs : AddProduct(a)
    \/ \E x \in ProdIds : SoftDeleteProduct(x)
    \/ \E x \in ProdIds : RestoreProduct(x)
    \/ \E x \in ProdIds : PermanentlyDeleteProduct(x)
    \/ \E k \in CatIds, name \in CatNames : AddCategory(k, name)
    \/ \E k \in CatIds, name \in CatNames : UpdateCategory(k, name)
    \/ \E k \in CatIds : SoftDeleteCategory(k)
    \/ \E k \in CatIds : RestoreCategory(k)
    \/ \E k \in CatIds : PermanentlyDeleteCategory(k)

SpecCatalog == InitCatalog /\ [][NextCatalog]_vars

(***************************************************************************)
(* Accounting used by the properties                                       *)
(***************************************************************************)
\* the quantity of batch b deducted by the requests of S that reported SUCCESS
RECURSIVE SuccessDeducted(_, _)
SuccessDeducted(S, b) ==
    IF S = {} THEN 0
    ELSE LET p == CHOOSE x \in S : TRUE
         IN  (IF req[p].result = "SUCCESS" THEN LineQty(req[p].items, b) ELSE 0)
             + SuccessDeducted(S \ {p}, b)

\* the quantity of batch b named by the line items of the persisted orders S
RECURSIVE OrdersDeducted(_, _)
OrdersDeducted(S, b) ==
    IF S = {} THEN 0
    ELSE LET o == CHOOSE x \in S : TRUE
         IN  LineQty(o.items, b) + OrdersDeducted(S \ {o}, b)

(***************************************************************************)
(* Properties                                                              *)
(***************************************************************************)
\* C1: under every interleaving of concurrent add-order requests, the quantities
\* deducted from a batch by the requests that report SUCCESS sum to at most the
\* batch's initial quantity.
C1_NoOversell ==
    \A b \in StockIds : SuccessDeducted(Reqs, b) <= initQty[b]

\* two requests that both deducted from the same batch both succeeded and
\* together took all of it
C1_Witness ==
    \E b \in StockIds :
        /\ \A p \in Reqs : req[p].result = "SUCCESS" /\ LineQty(req[p].items, b) > 0
        /\ SuccessDeducted(Reqs, b) = initQty[b]

\* C2: once a request has FAILED, no order of it exists and the store shows the
\* deductions of the successful requests only, so that a batch the failed request
\* deducted from before failing has the quantity it had before the call.
C2_FailedOrderLeavesNothing ==
    \A p \in Reqs : req[p].result = "FAILED" =>
        /\ \A o \in orders : o.id # p
        /\ \A b \in StockIds : stock[b].quantity = initQty[b] - SuccessDeducted(Reqs, b)

\* a request failed after deducting an earlier line item, and no other request
\* has succeeded
C2_Witness ==
    \E p \in Reqs :
        /\ req[p].result = "FAILED" /\ req[p].undone # {}
        /\ req[p].message = "Insufficient stock"
        /\ \A q \in Reqs : req[q].result # "SUCCESS"

\* C4: in every state reached through add-order requests alone, a batch's initial
\* quantity minus its quantity equals the sum of the line-item quantities naming it
\* in the persisted orders.
C4_DeductionsMatchOrders ==
    \A b \in StockIds : initQty[b] - stock[b].quantity = OrdersDeducted(orders, b)

\* two orders naming the same batch are persisted
C4_Witness ==
    /\ Cardinality(orders) = 2
    /\ \E b \in StockIds : \A o \in orders : LineQty(o.items, b) > 0

\* C5: the stored quantities and orders change only in a commit step, which makes
\* all of the order's deductions and its Order record visible together; no step of
\* a request in progress or of a failing request changes what a read can see.
C5_NoPartialOrderVisible ==
    [][(stock' # stock \/ orders' # orders) =>
          \E p \in Reqs :
              /\ req[p].pc = "commit" /\ req'[p].result = "SUCCESS"
              /\ orders' = orders \cup {req[p].order}
              /\ stock' = [b \in StockIds |->
                              IF b \in req[p].wrote THEN req[p].view[b] ELSE stock[b]]]_vars

\* one request holds an uncommitted deduction that the store does not show while
\* another request is reading
C5_Witness ==
    \E p \in Reqs, q \in Reqs :
        /\ p # q /\ req[q].pc = "findStock"
        /\ \E b \in req[p].wrote : req[p].view[b].quantity # stock[b].quantity

\* C3: after any sequence of add-stock, update-stock and add-order calls, every
\* stock batch's quantity is at least 0.
C3_QuantityNeverNegative ==
    \A b \in StockIds : stock[b].exists => stock[b].quantity >= 0

\* C6: every low-stock notification of add-order belongs to a request whose
\* transaction has committed: none is emitted before the commit, and none for an
\* attempt that is rolled back.
C6_NotifyOnlyAfterCommit ==
    \A n \in notifications : req[n.by].result = "SUCCESS"

\* C8: no two active customers have the same email, restore included.
C8_ActiveEmailsUnique ==
    \A c \in CustIds, d \in CustIds :
        (c # d /\ customers[c].exists /\ customers[d].exists
             /\ customers[c].deletedAt = 0 /\ customers[d].deletedAt = 0)
        => customers[c].email # customers[d].email

\* C10: add-order does not get past its customer lookup when the customer is
\* soft-deleted, and does not deduct from a batch that is soft-deleted.
C10_OrderOnlyAgainstActive ==
    [][\A p \in Reqs :
         /\ (req[p].pc = "findCustomer" /\ customers[req[p].customerId].deletedAt # 0)
              => req'[p].pc \in {"findCustomer", "done"}
         /\ (req[p].pc = "findStock" /\ req'[p].pc = "saveStock")
              => req'[p].cur.deletedAt = 0]_vars


\* C7: two concurrent add-product requests never both succeed with the same
\* productCode.
C7_NoDuplicateCode ==
    \A a, b \in AddReqs :
        (a # b /\ addReq[a].result = "SUCCESS" /\ addReq[b].result = "SUCCESS")
            => addReq[a].code # addReq[b].code

\* the call made in this step is restore-product for a soft-deleted product whose
\* productCode an active product holds
RestoresConflictingProduct ==
    /\ adminLeft' # adminLeft
    /\ resp'.op = "restore-product"
    /\ products[resp'.id].exists
    /\ products[resp'.id].deletedAt # 0
    /\ ActiveProductWithCode(products[resp'.id].productCode, resp'.id)

\* the call made in this step is restore-category for a soft-deleted category
\* whose name an active category holds
RestoresConflictingCategory ==
    /\ adminLeft' # adminLeft
    /\ resp'.op = "restore-category"
    /\ categories[resp'.id].exists
    /\ categories[resp'.id].deletedAt # 0
    /\ ActiveCategoryWithName(categories[resp'.id].name, resp'.id)

\* C9: restoring a soft-deleted category or product whose name or productCode
\* is held by another active category or product fails with the conflict error
\* and leaves every category and product as it was, the delete marker of the
\* record that was to be restored included.
C9_RestoreConflictFails ==
    [][/\ RestoresConflictingProduct =>
              (/\ resp'.status = "FAILED"
               /\ resp'.message = ProductConflict
               /\ products' = products
               /\ categories' = categories)
       /\ RestoresConflictingCategory =>
              (/\ resp'.status = "FAILED"
               /\ resp'.message = CategoryConflict
               /\ products' = products
               /\ categories' = categories)]_vars

\* restore-product has answered with the conflict error for a product that is
\* still soft-deleted while another active product holds its productCode
C9_Witness ==
    /\ resp.op = "restore-product"
    /\ resp.message = ProductConflict
    /\ products[resp.id].deletedAt # 0
    /\ ActiveProductWithCode(products[resp.id].productCode, resp.id)

RECURSIVE FirstLetters(_, _)
FirstLetters(name, n) ==
    IF n = 0 \/ Len(name) = 0 THEN <<>>
    ELSE IF Head(name) \in UpperLetters
         THEN <<Head(name)>> \o FirstLetters(Tail(name), n - 1)
    ELSE IF Head(name) \in LowerLetters
         THEN <<UpperOf[Head(name)]>> \o FirstLetters(Tail(name), n - 1)
    ELSE FirstLetters(Tail(name), n)

\* the three digits that write v, 0 <= v <= 999
ThreeDigits(v) ==
    <<Digits[(v \div 100) + 1], Digits[((v \div 10) % 10) + 1], Digits[(v % 10) + 1]>>

\* the active products whose code is P followed by three more characters
ActiveWithPrefix(P) ==
    {x \in ProdIds : /\ products[x].exists /\ products[x].deletedAt = 0
                     /\ Len(products[x].productCode) = Len(P) + 3
                     /\ \A i \in 1 .. Len(P) : products[x].productCode[i] = P[i]}

\* the suffixes v of the active products whose code is P followed by three digits
ActiveSuffixes(P) ==
    UNION {{v \in 0 .. 999 :
               ThreeDigits(v) = SubSeq(products[x].productCode, Len(P) + 1, Len(P) + 3)} :
           x \in ActiveWithPrefix(P)}

\* 1 + the largest such suffix, 1 when there is none
NextSuffix(P) ==
    LET S == ActiveSuffixes(P)
    IN  IF S = {} THEN 1 ELSE 1 + (CHOOSE v \in S : \A u \in S : u <= v)

\* the code the product-code rule gives a new product of a category named name
RuleCode(name) ==
    LET P == FirstLetters(name, 3)
        N == NextSuffix(P)
    IN  P \o (IF N < 1000 THEN ThreeDigits(N)
              ELSE <<Digits[(N \div 1000) + 1]>> \o ThreeDigits(N % 1000))

\* the call made in this step is an add-product that answered SUCCESS
ProductAdded ==
    adminLeft' # adminLeft /\ resp'.op = "add-product" /\ resp'.status = "SUCCESS"

\* C12: add-product gives the new product the code P N: P the first three
\* letters of the category name upper-cased, N one more than the largest
\* three-digit suffix among the active products whose code is P and three
\* digits (1 when there is none), written with at least three digits;
\* soft-deleted products do not count.
C12_CodeFollowsRule ==
    [][ProductAdded =>
         products'[resp'.id].productCode
            = RuleCode(categories[products'[resp'.id].category].name)]_vars

\* three products were created in "Footwear", the second was soft-deleted and a
\* fourth created: FOO001, FOO002 (deleted), FOO003, FOO004
C12_Witness ==
    /\ resp.op = "add-product" /\ resp.status = "SUCCESS"
    /\ products[resp.id].productCode = <<"F", "O", "O", "0", "0", "4">>
    /\ \E x, y, z \in ProdIds :
          /\ products[x].productCode = FOO001 /\ products[x].deletedAt = 0
          /\ products[y].productCode = <<"F", "O", "O", "0", "0", "2">>
          /\ products[y].deletedAt # 0
          /\ products[z].productCode = <<"F", "O", "O", "0", "0", "3">>
          /\ products[z].deletedAt = 0

\* C13: after any sequence of completed add-product, update-product,
\* soft-delete, restore and permanent-delete calls, no two active products have
\* the same productCode.
C13_ActiveCodesUnique ==
    \A x, y \in ProdIds :
        (x # y /\ products[x].exists /\ products[y].exists
             /\ products[x].deletedAt = 0 /\ products[y].deletedAt = 0)
        => products[x].productCode # products[y].productCode

\* code is one to three upper-case letters followed by exactly three digits
MatchesFormat(code) ==
    /\ Len(code) \in 4 .. 6
    /\ \A i \in 1 .. Len(code) :
          IF i <= Len(code) - 3 THEN code[i] \in UpperLetters ELSE IsDigit(code[i])

\* C14: every productCode that add-product generates is one to three upper-case
\* letters followed by three digits, whatever the category name and the active
\* products are.
C14_GeneratedCodeFormat ==
    [][ProductAdded => MatchesFormat(products'[resp'.id].productCode)]_vars

\* C15: after any sequence of completed add-category, update-category,
\* soft-delete, restore and permanent-delete calls, no two active categories
\* have the same name.
C15_ActiveNamesUnique ==
    \A k, j \in CatIds :
        (k # j /\ categories[k].exists /\ categories[j].exists
             /\ categories[k].deletedAt = 0 /\ categories[j].deletedAt = 0)
        => categories[k].name # categories[j].name

\* a category was restored while a soft-deleted category of the same name and
\* another active category exist
C15_Witness ==
    /\ resp.op = "restore-category" /\ resp.status = "SUCCESS"
    /\ \E j \in CatIds \ {resp.id} :
          /\ categories[j].exists /\ categories[j].deletedAt # 0
          /\ categories[j].name = categories[resp.id].name
    /\ \E j \in CatIds \ {resp.id} : categories[j].exists /\ categories[j].deletedAt = 0

\* the low-stock event of the line item that request p read last
LowStockEvent(p) ==
    [by |-> p, stock |-> req[p].item.stock, quantity |-> req[p].cur.quantity]

C18_MailFailureIgnored ==
    [][\A p \in Reqs :
         (req[p].pc = "alert" /\ req'[p].mailFailed /\ ~req[p].mailFailed) =>
            /\ req'[p] = [NextItem(req[p]) EXCEPT !.mailFailed = TRUE]
            /\ req'[p].result # "FAILED"
            /\ <<stock, orders>>' = <<stock, orders>>]_vars

\* an order whose low-stock mail was rejected is committed and answered SUCCESS
C18_Witness ==
    \E p \in Reqs :
        /\ req[p].result = "SUCCESS" /\ req[p].mailFailed
        /\ \E o \in orders : o.id = p

\* the sum over the line items its of the price of the batch's product times
\* the requested quantity
RECURSIVE PriceTimesQuantity(_)
PriceTimesQuantity(its) ==
    IF Len(its) = 0 THEN 0
    ELSE products[stock[Head(its).stock].product].price * Head(its).quantity
         + PriceTimesQuantity(Tail(its))

\* C19: the totalAmount persisted by a successful add-order is the supplied one
\* when that is a positive number, and otherwise (omitted, zero, negative, not a
\* number) the sum of price times quantity over the line items; a request is
\* not refused for omitting totalAmount.
C19_TotalAmountPersisted ==
    \A p \in Reqs :
        /\ req[p].result = "SUCCESS" =>
              \E o \in orders :
                  /\ o.id = p
                  /\ o.totalAmount =
                        IF /\ req[p].totalAmount.set /\ ~req[p].totalAmount.nan
                           /\ req[p].totalAmount.value > 0
                        THEN req[p].totalAmount.value
                        ELSE PriceTimesQuantity(req[p].items)
        /\ req[p].message = "All fields are required" =>
              (req[p].customerId = NoId \/ req[p].n = 0)

\* the call made in this step is update-order
UpdatesOrder == adminLeft' # adminLeft /\ resp'.op = "update-order"

\* C20: update-order on an id with no active order (absent or soft-deleted)
\* fails with the not-found error and changes nothing; on an active order it
\* changes at most that order's status, leaving its items, totalAmount,
\* customer and delete marker, every other order and every stock batch as
\* they were.
C20_UpdateOrderTouchesStatusOnly ==
    [][UpdatesOrder =>
         /\ UNCHANGED <<stock, customers, products, categories>>
         /\ ActiveOrders(resp'.id) = {} =>
               /\ resp'.status = "FAILED"
               /\ resp'.message \in {"Order not found or has been deleted",
                                     "Status is required and must be a string"}
               /\ orders' = orders
         /\ ActiveOrders(resp'.id) # {} =>
               \E o \in ActiveOrders(resp'.id) :
                   \E st \in StatusInputs \cup {o.status} :
                       orders' = (orders \ {o}) \cup {[o EXCEPT !.status = st]}]_vars

\* update-order was refused for a soft-deleted order, whose status is unchanged
C20_Witness ==
    /\ resp.op = "update-order"
    /\ resp.message = "Order not found or has been deleted"
    /\ \E o \in orders : o.id = resp.id /\ o.deletedAt # 0 /\ o.status = "pending"

(***************************************************************************)
(* Lifecycle of the five kinds of document                                 *)
(***************************************************************************)
\* the stored order with the given id, NoOrder when there is none
OrderDoc(S, id) ==
    IF \E o \in S : o.id = id THEN CHOOSE o \in S : o.id = id ELSE NoOrder

\* one add-order request of one line item beside the update, soft-delete and
\* restore routes of the five kinds
InitLifecycle == InitWith(StockIds, MaxAdminOps, 0, 0)

NextLifecycle ==
    \/ PlaceOrder("r1", {"c1"}, {1}, {Num(7)}, GoodItems)
    \/ \E b \in StockIds, q \in OptQty, a \in OptAlert : UpdateStock(b, q, a)
    \/ \E b \in StockIds : DeleteStock(b)
    \/ \E b \in StockIds : RestoreStock(b)
    \/ \E id \in OrderIds, status \in StatusInputs : UpdateOrderStatus(id, status)
    \/ \E id \in OrderIds : DeleteOrder(id)
    \/ \E id \in OrderIds : RestoreOrder(id)
    \/ \E x \in ProdIds, code \in CodeInputs, price \in {0, 3} :
          UpdateProduct(x, code, price, "k1")
    \/ \E x \in ProdIds : SoftDeleteProduct(x)
    \/ \E x \in ProdIds : RestoreProduct(x)
    \/ \E k \in CatIds, name \in CatNames : UpdateCategory(k, name)
    \/ \E k \in CatIds : SoftDeleteCategory(k)
    \/ \E k \in CatIds : RestoreCategory(k)
    \/ \E c \in CustIds, e \in Emails : UpdateCustomer(c, e)
    \/ \E c \in CustIds : DeleteCustomer(c)
    \/ \E c \in CustIds : RestoreCustomer(c)

SpecLifecycle == InitLifecycle /\ [][NextLifecycle]_vars

\* document e is document d with at most the delete marker changed
MarkerOnly(d, e) == e = [d EXCEPT !.deletedAt = e.deletedAt]

\* a step from document d to document e of the same id keeps the round trip:
\* a soft delete changes the marker alone, and a soft-deleted document changes
\* in nothing but its marker going back to 0
KeepsRoundTrip(d, e, present) ==
    /\ (present /\ d.deletedAt = 0 /\ e.deletedAt # 0) => MarkerOnly(d, e)
    /\ (present /\ d.deletedAt # 0) => (MarkerOnly(d, e) /\ e.deletedAt \in {0, d.deletedAt})

\* C21: for each of Product, Category, Customer, Order and Stock, a soft delete
\* changes the delete marker and nothing else, and a document that is
\* soft-deleted is changed by nothing until its restore, which sets the marker
\* back to 0 and nothing else: the restored document equals the document
\* before the soft delete.
C21_DeleteRestoreRoundTrip ==
    [][/\ \A b \in StockIds :
             KeepsRoundTrip(stock[b], stock'[b], stock[b].exists /\ stock'[b].exists)
       /\ \A x \in ProdIds :
             KeepsRoundTrip(products[x], products'[x],
                            products[x].exists /\ products'[x].exists)
       /\ \A k \in CatIds :
             KeepsRoundTrip(categories[k], categories'[k],
                            categories[k].exists /\ categories'[k].exists)
       /\ \A c \in CustIds :
             KeepsRoundTrip(customers[c], customers'[c],
                            customers[c].exists /\ customers'[c].exists)
       /\ \A id \in Reqs :
             KeepsRoundTrip(OrderDoc(orders, id), OrderDoc(orders', id),
                            OrderDoc(orders, id) # NoOrder /\ OrderDoc(orders', id) # NoOrder)
      ]_vars

(***************************************************************************)
(* Permanent deletion                                                      *)
(***************************************************************************)
\* bodies of the update routes called beside the permanent deletions
PurgeQty == {Absent, Num(1)}
\* the line items of the add-order request made beside them
S1Items == {[stock |-> "s1", quantity |-> n] : n \in {1, 2}}

\* one add-order request of one line item beside the lookups, lists, updates,
\* soft deletes, restores and permanent deletions of the five kinds, from a
\* store where product p1 and category k2 are soft-deleted
InitPurge == InitWith(StockIds, MaxAdminOps, DeletedStamp, DeletedStamp)

NextPurge ==
    \/ PlaceOrder("r1", {"c1"}, {1}, {Num(7)}, S1Items)
    \/ \E kind \in Kinds, deleted \in BOOLEAN : ListAll(kind, deleted)
    \/ \E b \in StockIds : GetStock(b)
    \/ \E b \in StockIds, q \in PurgeQty : UpdateStock(b, q, Absent)
    \/ \E b \in StockIds : DeleteStock(b)
    \/ \E b \in StockIds : RestoreStock(b)
    \/ \E b \in StockIds : PermanentlyDeleteStock(b)
    \/ \E id \in Reqs : GetOrder(id)
    \/ \E id \in Reqs, status \in StatusInputs : UpdateOrderStatus(id, status)
    \/ \E id \in Reqs : DeleteOrder(id)
    \/ \E id \in Reqs : RestoreOrder(id)
    \/ \E id \in Reqs : PermanentlyDeleteOrder(id)
    \/ \E x \in {"p1", "p2"} : GetProduct(x)
    \/ \E x \in {"p1", "p2"}, code \in CodeInputs : UpdateProduct(x, code, 3, "k1")
    \/ \E x \in {"p1", "p2"} : SoftDeleteProduct(x)
    \/ \E x \in {"p1", "p2"} : RestoreProduct(x)
    \/ \E x \in {"p1", "p2"} : PermanentlyDeleteProduct(x)
    \/ \E k \in CatIds : GetCategory(k)
    \/ \E k \in CatIds, name \in {Food, Foot} : UpdateCategory(k, name)
    \/ \E k \in CatIds : SoftDeleteCategory(k)
    \/ \E k \in CatIds : RestoreCategory(k)
    \/ \E k \in CatIds : PermanentlyDeleteCategory(k)
    \/ \E c \in CustIds : GetCustomer(c)
    \/ \E c \in CustIds, e \in Emails : UpdateCustomer(c, e)
    \/ \E c \in CustIds : DeleteCustomer(c)
    \/ \E c \in CustIds : RestoreCustomer(c)
    \/ \E c \in CustIds : PermanentlyDeleteCustomer(c)

SpecPurge == InitPurge /\ [][NextPurge]_vars

\* the step is a call of route op
Called(op) == adminLeft' # adminLeft /\ resp'.op = op

\* the step is a call of one of the routes ops for the document id
CalledFor(ops, id) == adminLeft' # adminLeft /\ resp'.op \in ops /\ resp'.id = id

\* the messages that report a document as not there
NotFoundMessages ==
    {"Stock not found",
     "Order not found or has been deleted", "Order not found or already deleted",
     "Order not found or not deleted",
     "Product not found", "Product not found or has been deleted",
     "Product not found or already deleted", "Product not found or is not deleted",
     "Category not found", "Category not found or has been deleted",
     "Category not found or already deleted", "Category not found or is not deleted",
     "Customer not found", "Customer not found or has been deleted",
     "Customer not found or already deleted", "Customer not found or is not deleted"}

\* the messages of an update whose body is refused before the lookup
BodyMessages ==
    {"Status is required and must be a string",
     "All fields are required and price must be a number"}

\* the lookup, update, soft-delete and restore routes of each kind
StockOps == {"get-stock", "update-stock", "delete-stock", "restore-stock"}
OrderOps == {"get-order", "update-order", "delete-order", "restore-order"}
ProductOps == {"get-product", "update-product", "delete-product", "restore-product"}
CategoryOps == {"get-category", "update-category", "delete-category", "restore-category"}
CustomerOps == {"get-customer", "update-customer", "delete-customer", "restore-customer"}

\* what the step must be like for the document id, which is there before the
\* step iff was and after it iff is: a permanent deletion (route purge) of a
\* document that is there succeeds and removes it; a lookup, update, soft
\* delete or restore (routes ops) of a document that is not there fails with
\* not-found and leaves it not there; and a document that is not there comes
\* to be there only when it is created
PurgeStep(id, was, is, purge, ops, created) ==
    /\ (CalledFor({purge}, id) /\ was) => (resp'.status = "SUCCESS" /\ ~is)
    /\ (CalledFor(ops, id) /\ ~was) =>
          /\ resp'.status = "FAILED"
          /\ resp'.message \in NotFoundMessages \cup BodyMessages
          /\ ~is
    /\ (~was /\ is) => created

\* C22: a permanent deletion removes the document whether its marker is 0 or
\* not; a lookup, update, soft delete or restore of an id that has no
\* document fails with the not-found message (an update whose body is refused
\* before the lookup fails with the body's message) and creates nothing; no
\* list, the with-deleted ones included, returns an id that has no document;
\* and only the creation of a document makes one appear.
C22_PermanentDeleteIsFinal ==
    [][/\ \A b \in StockIds :
             PurgeStep(b, stock[b].exists, stock'[b].exists, "permanent-delete-stock",
                       StockOps, CalledFor({"add-stock"}, b))
       /\ \A id \in Reqs :
             PurgeStep(id, OrderDoc(orders, id) # NoOrder, OrderDoc(orders', id) # NoOrder,
                       "permanently-delete-order", OrderOps, req[id].pc = "commit")
       /\ \A x \in ProdIds :
             PurgeStep(x, products[x].exists, products'[x].exists,
                       "permanently-delete-product", ProductOps,
                       CalledFor({"add-product"}, x))
       /\ \A k \in CatIds :
             PurgeStep(k, categories[k].exists, categories'[k].exists,
                       "permanently-delete-category", CategoryOps,
                       CalledFor({"add-category"}, k))
       /\ \A c \in CustIds :
             PurgeStep(c, customers[c].exists, customers'[c].exists,
                       "permanently-delete-customer", CustomerOps,
                       CalledFor({"add-customer"}, c))
       /\ adminLeft' # adminLeft =>
             resp'.data \subseteq
                {b \in StockIds : stock'[b].exists} \cup {o.id : o \in orders'}
                \cup {x \in ProdIds : products'[x].exists}
                \cup {k \in CatIds : categories'[k].exists}
                \cup {c \in CustIds : customers'[c].exists}
      ]_vars

\* product p1, soft-deleted at first, was permanently deleted and its restore
\* was then answered not-found
C22_Witness ==
    /\ resp.op = "restore-product" /\ resp.id = "p1"
    /\ resp.status = "FAILED" /\ resp.message = "Product not found or is not deleted"
    /\ ~products["p1"].exists

(***************************************************************************)
(* Queries and the delete marker                                           *)
(***************************************************************************)
\* one add-order request of one line item beside the create, soft-delete,
\* restore, list and lookup routes of the five kinds, from a store where
\* product p1 is soft-deleted
InitQueries == InitWith({"s1"}, MaxAdminOps, DeletedStamp, 0)

NextQueries ==
    \/ PlaceOrder("r1", {"c1"}, {1}, {Num(7)}, S1Items)
    \/ \E kind \in Kinds, deleted \in BOOLEAN : ListAll(kind, deleted)
    \/ \E b \in StockIds : AddStock(b, "p1", 1)
    \/ \E b \in StockIds : GetStock(b)
    \/ \E b \in StockIds : DeleteStock(b)
    \/ \E b \in StockIds : RestoreStock(b)
    \/ \E id \in Reqs : GetOrder(id)
    \/ \E id \in Reqs : DeleteOrder(id)
    \/ \E id \in Reqs : RestoreOrder(id)
    \/ \E x \in {"p1", "p2"} : CreateProduct(x, "k1")
    \/ \E x \in {"p1", "p2"} : GetProduct(x)
    \/ \E x \in {"p1", "p2"} : SoftDeleteProduct(x)
    \/ \E x \in {"p1", "p2"} : RestoreProduct(x)
    \/ \E k \in CatIds : AddCategory(k, B2)
    \/ \E k \in CatIds : GetCategory(k)
    \/ \E k \in CatIds : SoftDeleteCategory(k)
    \/ \E k \in CatIds : RestoreCategory(k)
    \/ \E c \in CustIds : AddCustomer(c, "a@x")
    \/ \E c \in CustIds : GetCustomer(c)
    \/ \E c \in CustIds : DeleteCustomer(c)
    \/ \E c \in CustIds : RestoreCustomer(c)

SpecQueries == InitQueries /\ [][NextQueries]_vars

\* what a call must be like for one kind of document, whose documents with
\* marker 0 are the ids Active before the call and ActiveNext after it, and
\* whose documents are the ids Stored before and StoredNext after it: the
\* active list returns Active; the with-deleted list returns Stored; the lookup
\* succeeds exactly for the ids in Active; a document just created or restored is
\* in the active set, a document just soft-deleted is not and stays stored
QueryStep(list, listAll, get, add, restore, delete, Active, Stored, ActiveNext,
          StoredNext) ==
    /\ Called(list) => resp'.data = Active
    /\ Called(listAll) => resp'.data = Stored
    /\ Called(get) =>
          /\ (resp'.status = "SUCCESS") <=> (resp'.id \in Active)
          /\ resp'.data = IF resp'.id \in Active THEN {resp'.id} ELSE {}
    /\ (Called(add) /\ resp'.status = "SUCCESS") => resp'.id \in ActiveNext
    /\ (Called(restore) /\ resp'.status = "SUCCESS") => resp'.id \in ActiveNext
    /\ (Called(delete) /\ resp'.status = "SUCCESS") =>
          (resp'.id \notin ActiveNext /\ resp'.id \in StoredNext)

\* C23: for each kind, the active list returns exactly the documents whose
\* delete marker is 0, the with-deleted list returns every document, and the
\* lookup by id succeeds exactly for a document whose marker is 0; a document
\* that was just created (an order: just committed) or restored is among those
\* the active queries return, and one that was just soft-deleted is not, while
\* the with-deleted list still returns it.
C23_QueriesFollowMarker ==
    [][/\ QueryStep("all-stocks", "all-stocks/with-deleted", "get-stock", "add-stock",
                    "restore-stock", "delete-stock",
                    {b \in StockIds : stock[b].exists /\ stock[b].deletedAt = 0},
                    {b \in StockIds : stock[b].exists},
                    {b \in StockIds : stock'[b].exists /\ stock'[b].deletedAt = 0},
                    {b \in StockIds : stock'[b].exists})
       /\ QueryStep("all-orders", "all-orders/with-deleted", "get-order", "add-order",
                    "restore-order", "delete-order",
                    {id \in Reqs : \E o \in orders : o.id = id /\ o.deletedAt = 0},
                    {id \in Reqs : \E o \in orders : o.id = id},
                    {id \in Reqs : \E o \in orders' : o.id = id /\ o.deletedAt = 0},
                    {id \in Reqs : \E o \in orders' : o.id = id})
       /\ \A p \in Reqs :
             (req[p].pc = "commit" /\ req'[p].result = "SUCCESS") =>
                \E o \in orders' : o.id = p /\ o.deletedAt = 0
       /\ QueryStep("all-products", "all-products/with-deleted", "get-product",
                    "add-product", "restore-product", "delete-product",
                    {x \in ProdIds : products[x].exists /\ products[x].deletedAt = 0},
                    {x \in ProdIds : products[x].exists},
                    {x \in ProdIds : products'[x].exists /\ products'[x].deletedAt = 0},
                    {x \in ProdIds : products'[x].exists})
       /\ QueryStep("all-categories", "all-categories/with-deleted", "get-category",
                    "add-category", "restore-category", "delete-category",
                    {k \in CatIds : categories[k].exists /\ categories[k].deletedAt = 0},
                    {k \in CatIds : categories[k].exists},
                    {k \in CatIds : categories'[k].exists /\ categories'[k].deletedAt = 0},
                    {k \in CatIds : categories'[k].exists})
       /\ QueryStep("all-customers", "all-customers/with-deleted", "get-customer",
                    "add-customer", "restore-customer", "delete-customer",
                    {c \in CustIds : customers[c].exists /\ customers[c].deletedAt = 0},
                    {c \in CustIds : customers[c].exists},
                    {c \in CustIds : customers'[c].exists /\ customers'[c].deletedAt = 0},
                    {c \in CustIds : customers'[c].exists})
      ]_vars

\* the active list of products returns the product that add-product created and
\* not the soft-deleted product p1, which the with-deleted list would return
C23_Witness ==
    /\ resp.op = "all-products"
    /\ resp.data = {"p2"}
    /\ "p1" \in AllProductsWithDeleted

\* C24: every add-order invocation that has not answered yet has an awaited
\* operation whose outcome lets it go on, so that it goes on to an answer
\* with its transaction committed or aborted; none is left with no answer and
\* nothing to wait for, store failures included.
C24_OrdersAlwaysAnswered ==
    \A p \in Reqs : req[p].pc \notin {"idle", "done"} => ENABLED Pending(p, GoodItems)

\* C25: add-order checks that the customer exists, then that there are line
\* items, then each line item in turn (batch found, then quantity enough), and
\* a request that fails reports the first of these checks that fails, with a
\* message of its own, changing no batch and persisting no order.  The formula
\* looks at requests that supply a customerId and a totalAmount: one refused
\* for its empty item list has passed the customer check.
C25_ChecksInOrder ==
    [][\A p \in Reqs :
         (req[p].pc # "done" /\ req'[p].pc = "done" /\ req'[p].result = "FAILED") =>
            /\ stock' = stock /\ orders' = orders
            /\ (/\ req[p].pc = "idle"
                /\ req'[p].customerId # NoId /\ req'[p].totalAmount.set) =>
                  /\ req'[p].message = "All fields are required"
                  /\ req'[p].n = 0
                  /\ customers[req'[p].customerId].exists
            /\ (req[p].pc = "findCustomer" /\ req'[p].message # "server error") =>
                  /\ req'[p].message = "Customer not found"
                  /\ ~customers[req[p].customerId].exists
            /\ (req[p].pc = "findStock" /\ req'[p].message # "server error") =>
                  LET doc == TxnFindStock(req[p], req'[p].item.stock)
                  IN  IF ~doc.exists THEN req'[p].message = "Stock not found"
                      ELSE /\ req'[p].message = "Insufficient stock"
                           /\ req'[p].item.quantity > doc.quantity]_vars

\* C26: no add-order call increases the quantity of a batch, whatever the
\* requested quantities are: the step in which a call's writes reach the store
\* leaves every batch with at most the quantity it had.
C26_OrderNeverAddsStock ==
    [][\A p \in Reqs :
         (req[p].pc = "commit" /\ req'[p].result = "SUCCESS") =>
            \A b \in StockIds : stock'[b].quantity <= stock[b].quantity]_vars

(***************************************************************************)
(* The stock routes beside the removal of products                         *)
(***************************************************************************)
InitStockCatalog == InitWith({"s1"}, MaxAdminOps, 0, 0)

NextStockCatalog ==
    \/ \E b \in StockIds, x \in ProdIds, q \in (-1) .. MaxStock : AddStock(b, x, q)
    \/ \E b \in StockIds, q \in OptQty, a \in OptAlert : UpdateStock(b, q, a)
    \/ \E b \in StockIds : DeleteStock(b)
    \/ \E b \in StockIds : RestoreStock(b)
    \/ \E x \in ProdIds : PermanentlyDeleteProduct(x)

SpecStockCatalog == InitStockCatalog /\ [][NextStockCatalog]_vars

\* C27: an update-stock call that answers FAILED leaves every batch as it was,
\* whether it fails because the batch is soft-deleted or absent or because
\* the low-stock check does not find the batch's product.
C27_FailedUpdateChangesNothing ==
    [][(Called("update-stock") /\ resp'.status = "FAILED") => stock' = stock]_vars

\* C28: a soft delete, a restore or a permanent deletion of an order changes
\* no stock batch and no deduction a request in progress holds: what a placed
\* order took from its batches is not given back.
C28_OrderLifecycleKeepsStock ==
    [][(adminLeft' # adminLeft
        /\ resp'.op \in {"delete-order", "restore-order", "permanently-delete-order"})
       => (stock' = stock /\ req' = req)]_vars

\* a placed order was soft-deleted and its batch still lacks what it took
C28_Witness ==
    /\ resp.op = "delete-order" /\ resp.status = "SUCCESS"
    /\ req[resp.id].result = "SUCCESS"
    /\ \E b \in StockIds :
          /\ LineQty(req[resp.id].items, b) > 0
          /\ stock[b].quantity = initQty[b] - LineQty(req[resp.id].items, b)

\* what a step must be like for the document id, d before the step and e after
\* it (present: it is there before and after): its marker changes only from 0
\* to a timestamp in a soft delete that succeeds and from a timestamp to 0 in
\* a restore that succeeds; a soft delete of a soft-deleted document and a
\* restore of an active one fail and leave the document as it was
MarkerStep(id, d, e, present, delete, restore) ==
    present =>
       /\ d.deletedAt # e.deletedAt =>
             \/ /\ d.deletedAt = 0 /\ e.deletedAt # 0
                /\ CalledFor({delete}, id) /\ resp'.status = "SUCCESS"
             \/ /\ d.deletedAt # 0 /\ e.deletedAt = 0
                /\ CalledFor({restore}, id) /\ resp'.status = "SUCCESS"
       /\ (CalledFor({delete}, id) /\ d.deletedAt # 0) => (resp'.status = "FAILED" /\ e = d)
       /\ (CalledFor({restore}, id) /\ d.deletedAt = 0) => (resp'.status = "FAILED" /\ e = d)

\* C29: the delete marker of an order, batch, category, customer or product
\* changes only by a soft delete, from 0 to a timestamp, and by a restore,
\* from a timestamp to 0; a soft delete of a document that is already
\* soft-deleted fails and keeps its timestamp, and a restore of an active
\* document fails and changes nothing.
C29_MarkerChangesByDeleteAndRestore ==
    [][/\ \A b \in StockIds :
             MarkerStep(b, stock[b], stock'[b], stock[b].exists /\ stock'[b].exists,
                        "delete-stock", "restore-stock")
       /\ \A id \in Reqs :
             MarkerStep(id, OrderDoc(orders, id), OrderDoc(orders', id),
                        OrderDoc(orders, id) # NoOrder /\ OrderDoc(orders', id) # NoOrder,
                        "delete-order", "restore-order")
       /\ \A k \in CatIds :
             MarkerStep(k, categories[k], categories'[k],
                        categories[k].exists /\ categories'[k].exists,
                        "delete-category", "restore-category")
       /\ \A c \in CustIds :
             MarkerStep(c, customers[c], customers'[c],
                        customers[c].exists /\ customers'[c].exists,
                        "delete-customer", "restore-customer")
       /\ \A x \in ProdIds :
             MarkerStep(x, products[x], products'[x],
                        products[x].exists /\ products'[x].exists,
                        "delete-product", "restore-product")
      ]_vars

\* a soft delete of a batch that was already soft-deleted was refused, and the
\* batch keeps its marker
C29_Witness ==
    /\ resp.op = "delete-stock" /\ resp.message = "Stock already deleted"
    /\ stock[resp.id].deletedAt = DeletedStamp

\* the stock router: its GET routes beside the routes that write batches
InitStockRouter == InitWith({"s1"}, MaxAdminOps, 0, 0)

NextStockRouter ==
    \/ \E path \in StockGetPaths : StockGet(path)
    \/ \E b \in StockIds, x \in ProdIds, q \in (-1) .. MaxStock : AddStock(b, x, q)
    \/ \E b \in StockIds, q \in OptQty, a \in OptAlert : UpdateStock(b, q, a)
    \/ \E b \in StockIds : DeleteStock(b)
    \/ \E b \in StockIds : RestoreStock(b)

SpecStockRouter == InitStockRouter /\ [][NextStockRouter]_vars

\* the step is a GET of /stock/check-low-stock, whichever handler answered it
CalledCheckLowStock ==
    /\ adminLeft' # adminLeft
    /\ \/ resp'.op = "check-low-stock"
       \/ resp'.op = "get-stock" /\ resp'.id = "check-low-stock"

\* the alert the check owes for batch b: the name of its product, its batch
\* number and its quantity, to the users
AlertFor(b) ==
    LowStockMail(<<Str(stock[b].product), Str(b), Number(stock[b].quantity), UserEmails>>)

\* C30: a GET of /check-low-stock on the stock router reaches the
\* check-low-stock handler, which emits one alert with product name, batch
\* number and quantity for each active batch whose quantity is at most its
\* lowStockAlert and none for another batch, and reports that no low-stock
\* items were found when there is no such batch.
C30_CheckLowStockAlerts ==
    [][CalledCheckLowStock =>
          LET low == {b \in StockIds : /\ stock[b].exists /\ stock[b].deletedAt = 0
                                       /\ stock[b].quantity <= stock[b].lowStockAlert}
          IN  /\ resp'.op = "check-low-stock"
              /\ resp'.status = "SUCCESS"
              /\ resp'.mails = {AlertFor(b) : b \in low}
              /\ low = {} => resp'.message = "No low stock items found"
      ]_vars

====
